---- MODULE Spec2Model ----
(***************************************************************************)
(* A model of the Yaniv self-play trainer: the rule engine (YanivGameAI    *)
(* and YanivGameAIOptimized), the parallel tournament executor and the     *)
(* generational loop of the genetic algorithms.                            *)
(*                                                                         *)
(* Python indices are kept 0-based (current_player, the hand positions     *)
(* named by an action); TLA+ sequences are 1-based, hence the "+ 1" when a *)
(* Python index reads a sequence.                                          *)
(***************************************************************************)
EXTENDS Integers, Sequences, FiniteSets, Bags, TLC

VARIABLES
    \* ---- rule engine ----
    engine,         \* "list" (YanivGameAI) or "optimized" (YanivGameAIOptimized)
    deck,           \* self.deck: list of cards, popped from its end
    discard_pile,   \* self.discard_pile: list of cards, its end is the top
    players,        \* self.players: list of [hand, score]; players[i + 1]['ai'] is agent i
    current_player, \* self.current_player
    game_over,      \* self.game_over
    winner,         \* self.winner: seat of the winning agent, None when unset
    hand_arrays,    \* self.hand_arrays (optimized engine): per player 10 rows <<value, suit_idx>>
    hand_sizes,     \* self.hand_sizes (optimized engine)
    turn_count,     \* play_game's local turn_count
    pc,             \* position of play_game: "new", "loop", "done"; after a call of
                    \* execute_action from outside the loop: "executed", "raised"
    rng,            \* state of the pseudo-random generator behind random / np.random
    policy,         \* how the agents' get_action picks among the legal actions
    turn_phase,     \* game.turn_phase of the learning simulator: "draw", "discard"
    agents,         \* the simulator's two agents: [games_played, wins]
    \* ---- genetic algorithm ----
    ga_kind,        \* "base" (GeneticAlgorithm), "parallel" / "vectorized"
                    \* (GeneticAlgorithmOptimized with use_parallel True / False)
    population_size,    \* self.population_size
    top_k,              \* self.top_k
    games_per_matchup,  \* the argument of evolve / evolve_parallel
    num_generations,    \* the argument of evolve / evolve_parallel
    gen,            \* the loop variable of evolve / evolve_parallel
    generation,     \* self.generation
    nets,           \* the network objects ever created: [network_id, w, fitness, wins,
                    \* games_played]; a network is referred to by its position in nets
    weights,        \* the parameter arrays ever created; nets[r].w names the array of r
    population,     \* self.population: list of references into nets
    fitness_array,  \* self.fitness_array (GeneticAlgorithmOptimized)
    wins_array,     \* self.wins_array
    games_array,    \* self.games_array
    survivors,      \* the local survivors of evolve / evolve_parallel
    best_fitness_history,   \* self.best_fitness_history
    mutation_rate,  \* self.mutation_rate, in units of 1/RateScale
    mutation_strength,      \* self.mutation_strength, in units of 1/RateScale
    checkpoint,     \* the file written by save_checkpoint: <<>>, or <<the dictionary>>
    games_log,      \* the games of the last evaluation: pair of population indices |-> count
    ga_pc,          \* position of evolve: "idle", "new", "evaluate", "select", "breed",
                    \* "done", "raised"; "adapt", "loaded" outside evolve
    \* ---- parallel tournament ----
    pending,        \* futures of future_to_task not yet yielded by as_completed
    results_dict,   \* results_dict of play_tournament_parallel_with_progress
    completed_matchups, \* its local completed_matchups
    completed_games,    \* its local completed_games
    failed,         \* the tasks whose future raised when its result was asked for
    t_pc,           \* its position: "idle", "start", "running", "returned", "raised";
                    \* "matchup", "matched" for a single matchup
    \* ---- one matchup ----
    match_log,      \* the games of the matchup so far: [first, second, winner]
    match_wins,     \* <<p1_wins, p2_wins>>
    \* ---- AdaptiveGeneticAlgorithm.evaluate_fitness ----
    individual_idx, \* the argument individual_idx
    include_hall_of_fame,   \* the argument include_hall_of_fame
    champions,      \* len(self.hall_of_fame.champions)
    opponents_idx,  \* the opponents of opponents_idx not yet played
    hof_opponents,  \* the number of hof_opponents not yet played
    total_wins,     \* the local total_wins
    games_played,   \* the local games_played
    base_fitness,   \* the value returned: <<>>, or <<the fraction <<n, d>> >>
    f_pc,           \* position of evaluate_fitness: "idle", "new", "population",
                    \* "hall_of_fame", "bonus", "returned"
    \* ---- ParallelGameExecutorFixed.play_tournament_parallel_with_progress ----
    progress_queue, \* the messages of progress_queue not yet taken, oldest first
    progress_thread,    \* the thread running update_progress: "none", "running",
                        \* "finished"
    futures,        \* per submitted chunk: [chunk, played, results, state], state
                    \* "queued", "running", "done" or "raised"
    collected,      \* the number of futures whose result() the main loop has taken
    \* ---- HallOfFame ----
    hall_of_fame,   \* [size, champions]: self.size and self.champions, each champion
                    \* [network, fitness, generation]
    hof_updates,    \* the number of calls of update so far
    hof_result,     \* the last call of get_opponents: [n, raised, selected]
    h_pc            \* "idle", "ready", "returned", "raised"

gameVars == <<engine, deck, discard_pile, players, current_player, game_over,
              winner, hand_arrays, hand_sizes, turn_count, pc, rng, policy, turn_phase,
              agents>>

gaVars == <<ga_kind, population_size, top_k, games_per_matchup, num_generations, gen,
            generation, nets, weights, population, fitness_array, wins_array, games_array,
            survivors, best_fitness_history, mutation_rate, mutation_strength, checkpoint,
            games_log, ga_pc>>

matchVars == <<match_log, match_wins>>

tournamentVars == <<pending, results_dict, completed_matchups, completed_games, failed,
                    t_pc, matchVars>>

hofVars == <<hall_of_fame, hof_updates, hof_result, h_pc>>

fitnessVars == <<individual_idx, include_hall_of_fame, champions, opponents_idx,
                 hof_opponents, total_wins, games_played, base_fitness, f_pc, hofVars>>

progressVars == <<progress_queue, progress_thread, futures, collected>>

vars == <<gameVars, gaVars, tournamentVars, fitnessVars, progressVars>>

-----------------------------------------------------------------------------
(* Bounds of the model *)

\* number of seeds the pseudo-random generator is started from
NumSeeds == 4

\* an action that is not legal is handed to execute_action in one of the first
\* MaxMisuseTurn turns of a game
MaxMisuseTurn == 2

\* the populations have 1 .. MaxPop networks (and one population is just larger
\* than a batch of evaluate_population_vectorized)
MaxPop == 4

\* games_per_matchup is 1 .. MaxGames
MaxGames == 2

\* evolve runs for 1 .. MaxGenerations generations
MaxGenerations == 2

\* a single matchup has 1 .. MaxMatchGames games
MaxMatchGames == 6

\* the hall of fame holds at most this many champions when evaluate_fitness runs
MaxChampions == 4

\* ParallelGameExecutorFixed is constructed with NumWorkers worker processes
NumWorkers == 2

\* evolve_parallel is called again after load_checkpoint as long as at most
\* MaxResumedNets network objects have been created
MaxResumedNets == 10

\* initialize_game alone is called with 0 .. MaxSeats players
MaxSeats == 13

\* the adaptation of the mutation parameters is followed until the history of
\* best fitnesses has MaxHistory entries
MaxHistory == 8

-----------------------------------------------------------------------------
(* Program constants *)

None == -1
Joker == 52
DeckSize == 54
HandSize == 5
YanivThreshold == 7
AssafPenalty == 30
max_turns == 200
MaxHandRows == 10

\* batch_size = min(32, population_size) of evaluate_population_vectorized
BatchSize == 32

\* output_size of the networks: the number of action probabilities
OutputSize == 16

\* max_turns of YanivSimulator.play_game
SimMaxTurns == 200

\* mutation rates and strengths are counted in units of 1/RateScale
RateScale == 10000

\* mutation_rate = 0.1, mutation_strength = 0.1 of the constructors
DefaultRate == 1000

\* the bounds 0.05 and 0.3 of adaptive_mutation_rate
MinRate == 500
MaxRate == 3000

\* save_interval = 5 of evolve_parallel
save_interval == 5

PlayerCounts == 2 .. 10
Engines == {"list", "optimized"}
\* How an agent discards: "random" takes the legal discard the generator picks,
\* "greedy" the one that sheds the most points. Whenever call_yaniv is legal the
\* agent is free to call or to discard.
Policies == {"random", "greedy"}

-----------------------------------------------------------------------------
(* Sequences and the pseudo-random generator *)

Last(s) == s[Len(s)]
Front(s) == SubSeq(s, 1, Len(s) - 1)
Range(s) == {s[i] : i \in DOMAIN s}

\* The sequence of the payloads x[2] of a set of <<key, payload>> pairs, by
\* ascending key: the order in which the code's loops produce them.
RECURSIVE SortByKey(_)
SortByKey(S) ==
    IF S = {} THEN <<>>
    ELSE LET m == CHOOSE x \in S : \A y \in S : x[1] <= y[1]
         IN <<m[2]>> \o SortByKey(S \ {m})

RECURSIVE SumSeq(_)
SumSeq(s) == IF s = <<>> THEN 0 ELSE s[1] + SumSeq(Tail(s))

RECURSIVE GCD(_, _)
GCD(a, b) == IF b = 0 THEN a ELSE GCD(b, a % b)

\* One step of the generator: every random draw consumes one value.
NextRng(r) == (r * 6 + 1) % 251

SeedRng(seed) == (seed * 97) % 251

\* The smallest stride >= 1 + r % (n - 1) that is coprime to n (n >= 2).
Stride(n, r) ==
    LET ok(a) == GCD(a, n) = 1 /\ a >= 1 + (r % (n - 1))
    IN CHOOSE a \in 1 .. n : ok(a) /\ \A b \in 1 .. n : ok(b) => a <= b

\* random.shuffle(s): a permutation of s picked by the generator's value r.
Shuffle(s, r) ==
    LET n == Len(s)
        a == Stride(n, r)
    IN IF n <= 1 THEN s
       ELSE [i \in 1 .. n |-> s[(((i - 1) * a + r) % n) + 1]]

-----------------------------------------------------------------------------
(* Cards *)

\* A card is a number: 0 .. 51 is suit (c \div 13), rank (c % 13) + 1; both
\* jokers are the same dict {'suit': 'joker', 'value': 0}, the number Joker.
CardValue(c) == IF c = Joker THEN 0 ELSE (c % 13) + 1
\* 'suit_idx': 0 .. 3, and -1 for the suit 'joker'
SuitIdx(c) == IF c = Joker THEN -1 ELSE c \div 13

\* _create_deck / _create_deck_optimized before the shuffle
CreateDeck == [i \in 1 .. DeckSize |-> IF i <= 52 THEN i - 1 ELSE Joker]

\* a hand value in which the face cards count their rank
get_hand_value_uncapped(hand) ==
    SumSeq([i \in 1 .. Len(hand) |->
              IF SuitIdx(hand[i]) = -1 THEN 0 ELSE CardValue(hand[i])])

\* get_hand_value(hand)
get_hand_value(hand) ==
    SumSeq([i \in 1 .. Len(hand) |->
              IF SuitIdx(hand[i]) = -1 THEN 0
              ELSE IF CardValue(hand[i]) >= 11 THEN 10
              ELSE CardValue(hand[i])])

\* calculate_hand_value_jit(values, suits) on rows <<value, suit_idx>>
calculate_hand_value_jit(rows) ==
    SumSeq([i \in 1 .. Len(rows) |->
              IF rows[i][2] = -1 THEN 0
              ELSE IF rows[i][1] >= 11 THEN 10
              ELSE rows[i][1]])

\* the rows <<value, suit>> the list engine reads off the hand's dicts
ListRows(hand) == [i \in 1 .. Len(hand) |-> <<CardValue(hand[i]), SuitIdx(hand[i])>>]

\* hand_arrays[player_idx, :hand_size]
ArrayRows(arrays, sizes, p) == SubSeq(arrays[p + 1], 1, sizes[p + 1])

\* an update that leaves the rows as they are
UpdateHandArrayNever(rows, hand) == rows

\* _update_hand_array: rows 0 .. len(hand) - 1 are overwritten, the rest kept
UpdateHandArray(rows, hand) ==
    [i \in 1 .. Len(rows) |->
        IF i <= Len(hand) /\ i - 1 < MaxHandRows
        THEN <<CardValue(hand[i]), SuitIdx(hand[i])>>
        ELSE rows[i]]

\* a hand value read off all ten rows, whatever the hand's size
get_hand_value_all_rows(arrays, sizes, p) == calculate_hand_value_jit(arrays[p + 1])

\* get_hand_value_optimized(player_idx)
get_hand_value_optimized(arrays, sizes, p) ==
    calculate_hand_value_jit(ArrayRows(arrays, sizes, p))

\* the hand value the engine eng computes for player p
EngineHandValue(eng, ps, arrays, sizes, p) ==
    IF eng = "list" THEN get_hand_value(ps[p + 1].hand)
    ELSE get_hand_value_optimized(arrays, sizes, p)

-----------------------------------------------------------------------------
(* Legal actions *)

\* every card list of cardLists, once per draw source
WithDrawSource(type, cardLists) ==
    [k \in 1 .. 2 * Len(cardLists) |->
        [type |-> type,
         cards |-> cardLists[(k + 1) \div 2],
         draw_from |-> IF k % 2 = 1 THEN "deck" ELSE "discard"]]

Ascending(S) == SortByKey({<<i, i>> : i \in S})

\* pairs (i, j), i < j, of equal value: find_pairs_jit and the list engine's loop
find_pairs(rows) ==
    LET n == Len(rows)
    IN SortByKey({<<x[1] * 10 + x[2], <<x[1], x[2]>>>> :
                    x \in {y \in (0 .. n - 1) \X (0 .. n - 1) :
                             y[1] < y[2] /\ rows[y[1] + 1][1] = rows[y[2] + 1][1]}})

IndicesOfValue(rows, v) == {i \in 0 .. Len(rows) - 1 : rows[i + 1][1] = v}

\* sets: all positions of a value held 3 times or more; the list engine walks the
\* values in order of first occurrence, the optimized one in np.unique's order
find_sets(eng, rows) ==
    LET vals == {v \in {rows[i][1] : i \in DOMAIN rows} :
                   Cardinality(IndicesOfValue(rows, v)) >= 3}
        first(v) == CHOOSE i \in IndicesOfValue(rows, v) :
                       \A j \in IndicesOfValue(rows, v) : i <= j
    IN SortByKey({<<IF eng = "list" THEN first(v) ELSE v,
                    Ascending(IndicesOfValue(rows, v))>> : v \in vals})

SuitCards(rows, s) == {i \in 0 .. Len(rows) - 1 : rows[i + 1][2] = s}

HasCard(rows, s, v) == \E i \in SuitCards(rows, s) : rows[i + 1][1] = v

\* length of the chain v, v + 1, ... of suit s that the inner loop collects
RunLength(rows, s, v) ==
    CHOOSE m \in 0 .. Len(rows) :
        /\ \A k \in 0 .. m - 1 : HasCard(rows, s, v + k)
        /\ ~HasCard(rows, s, v + m)

\* runs that are kept from 2 cards on
find_runs_from_two(eng, rows) ==
    LET suits == IF eng = "list" THEN {rows[i][2] : i \in DOMAIN rows} ELSE 0 .. 3
        big == {s \in suits : Cardinality(SuitCards(rows, s)) >= 3}
        first(s) == CHOOSE i \in SuitCards(rows, s) : \A j \in SuitCards(rows, s) : i <= j
        pos(s, v) == CHOOSE i \in SuitCards(rows, s) : rows[i + 1][1] = v
        starts == {x \in big \X (0 .. 13) :
                     HasCard(rows, x[1], x[2]) /\ RunLength(rows, x[1], x[2]) >= 2}
    IN SortByKey({<<(IF eng = "list" THEN first(x[1]) ELSE x[1]) * 100 + x[2],
                    [k \in 1 .. RunLength(rows, x[1], x[2]) |-> pos(x[1], x[2] + k - 1)]>> :
                    x \in starts})

\* runs: for every suit group of 3 cards or more, sorted by value, the chain that
\* starts at each card, kept when it has 3 cards or more (find_runs_jit walks the
\* suits 0 .. 3, the list engine the suits in order of first occurrence)
find_runs(eng, rows) ==
    LET suits == IF eng = "list" THEN {rows[i][2] : i \in DOMAIN rows} ELSE 0 .. 3
        big == {s \in suits : Cardinality(SuitCards(rows, s)) >= 3}
        first(s) == CHOOSE i \in SuitCards(rows, s) : \A j \in SuitCards(rows, s) : i <= j
        pos(s, v) == CHOOSE i \in SuitCards(rows, s) : rows[i + 1][1] = v
        starts == {x \in big \X (0 .. 13) :
                     HasCard(rows, x[1], x[2]) /\ RunLength(rows, x[1], x[2]) >= 3}
    IN SortByKey({<<(IF eng = "list" THEN first(x[1]) ELSE x[1]) * 100 + x[2],
                    [k \in 1 .. RunLength(rows, x[1], x[2]) |-> pos(x[1], x[2] + k - 1)]>> :
                    x \in starts})

CallYaniv == [type |-> "call_yaniv", cards |-> <<>>, draw_from |-> "none"]

\* get_legal_actions / get_legal_actions_optimized on the rows of the hand, whose
\* value the engine computed as value
LegalActions(eng, rows, value) ==
    WithDrawSource("discard_single", [i \in 1 .. Len(rows) |-> <<i - 1>>])
    \o WithDrawSource("discard_pair", find_pairs(rows))
    \o WithDrawSource("discard_set", find_sets(eng, rows))
    \o WithDrawSource("discard_run", find_runs(eng, rows))
    \o (IF value <= YanivThreshold THEN <<CallYaniv>> ELSE <<>>)

\* get_legal_actions(player_idx) of the engine eng
get_legal_actions(eng, ps, arrays, sizes, p) ==
    IF eng = "list"
    THEN LegalActions(eng, ListRows(ps[p + 1].hand), get_hand_value(ps[p + 1].hand))
    ELSE LegalActions(eng, ArrayRows(arrays, sizes, p),
                      get_hand_value_optimized(arrays, sizes, p))

-----------------------------------------------------------------------------
(* initialize_game *)

\* the hand of player i (0-based): five pops from the end of the shuffled deck
DealHand(d, i) == [k \in 1 .. HandSize |-> d[Len(d) - HandSize * i - (k - 1)]]

\* what is left of the deck d after n hands were dealt
DeckAfterDeal(d, n) == SubSeq(d, 1, Len(d) - HandSize * n)

ZeroRows == [i \in 1 .. MaxHandRows |-> <<0, 0>>]

-----------------------------------------------------------------------------
(* execute_action *)

RemoveAt(hand, idx) == SubSeq(hand, 1, idx) \o SubSeq(hand, idx + 2, Len(hand))

\* sorted(action['cards'], reverse=True), for a list of distinct positions
SortedReverse(cards) == SortByKey({<<0 - i, i>> : i \in Range(cards)})

\* the loop of player['hand'].pop(idx): [hand, discarded]
RECURSIVE PopCards(_, _, _)
PopCards(hand, idxs, discarded) ==
    IF idxs = <<>> THEN [hand |-> hand, discarded |-> discarded]
    ELSE PopCards(RemoveAt(hand, idxs[1]), Tail(idxs), Append(discarded, hand[idxs[1] + 1]))

\* a reshuffle that leaves the top card in the new deck as well
ReshuffleKeepsTop(dk, pile, r) ==
    IF dk = <<>> /\ Len(pile) > 1
    THEN [deck |-> Shuffle(pile, r), discard_pile |-> <<Last(pile)>>]
    ELSE [deck |-> dk, discard_pile |-> pile]

\* the reshuffle at the end of execute_action: [deck, discard_pile]
Reshuffle(dk, pile, r) ==
    IF dk = <<>> /\ Len(pile) > 1
    THEN [deck |-> Shuffle(Front(pile), r), discard_pile |-> <<Last(pile)>>]
    ELSE [deck |-> dk, discard_pile |-> pile]

\* a draw that takes a card from the deck only
DrawCardFromDeckOnly(hand, dk, pile, draw_from) ==
    IF draw_from = "deck" /\ dk # <<>>
    THEN [hand |-> Append(hand, Last(dk)), deck |-> Front(dk), discard_pile |-> pile]
    ELSE [hand |-> hand, deck |-> dk, discard_pile |-> pile]

\* the draw of execute_action after the discard: [hand, deck, discard_pile]
DrawCard(hand, dk, pile, draw_from) ==
    IF draw_from = "deck" /\ dk # <<>>
    THEN [hand |-> Append(hand, Last(dk)), deck |-> Front(dk), discard_pile |-> pile]
    ELSE IF draw_from = "discard" /\ pile # <<>>
    THEN [hand |-> Append(hand, Last(pile)), deck |-> dk, discard_pile |-> Front(pile)]
    ELSE [hand |-> hand, deck |-> dk, discard_pile |-> pile]

\* execute_action for a discard action: [hand, deck, discard_pile]
ExecuteDiscard(hand, dk, pile, action, r) ==
    LET popped == PopCards(hand, SortedReverse(action.cards), <<>>)
        drawn == DrawCard(popped.hand, dk, pile \o popped.discarded, action.draw_from)
        piles == Reshuffle(drawn.deck, drawn.discard_pile, r)
    IN [hand |-> drawn.hand, deck |-> piles.deck, discard_pile |-> piles.discard_pile]

\* the position of the last of the smallest values: what a loop comparing with
\* <= would keep
LastMin(s) ==
    CHOOSE i \in 0 .. Len(s) - 1 :
        /\ \A j \in 0 .. Len(s) - 1 : s[i + 1] <= s[j + 1]
        /\ \A j \in i + 1 .. Len(s) - 1 : s[j + 1] > s[i + 1]

\* the first index (0-based) of a minimum of the sequence s: the loops that keep
\* the first strictly smaller value
FirstMin(s) ==
    CHOOSE i \in 0 .. Len(s) - 1 :
        /\ \A j \in 0 .. Len(s) - 1 : s[i + 1] <= s[j + 1]
        /\ \A j \in 0 .. i - 1 : s[j + 1] > s[i + 1]

\* an assaf test that lets a tie pass
IsAssafStrict(values, caller_idx) ==
    \E i \in 0 .. Len(values) - 1 : i # caller_idx /\ values[i + 1] < values[caller_idx + 1]

\* the assaf test of _handle_yaniv_call on the hand values the engine computed
IsAssaf(values, caller_idx) ==
    \E i \in 0 .. Len(values) - 1 : i # caller_idx /\ values[i + 1] <= values[caller_idx + 1]

\* the scores after _handle_yaniv_call
YanivScores(ps, values, caller_idx) ==
    IF IsAssaf(values, caller_idx)
    THEN [i \in 1 .. Len(ps) |->
            IF i - 1 = caller_idx THEN ps[i].score + AssafPenalty ELSE ps[i].score]
    ELSE [i \in 1 .. Len(ps) |-> ps[i].score + values[i]]

\* _handle_yaniv_call: [players, winner]
HandleYanivCall(ps, values, caller_idx) ==
    LET scores == YanivScores(ps, values, caller_idx)
    IN [players |-> [i \in 1 .. Len(ps) |-> [ps[i] EXCEPT !.score = scores[i]]],
        winner |-> FirstMin(scores)]

-----------------------------------------------------------------------------
(* play_game *)

HandValues(eng, ps, arrays, sizes) ==
    [i \in 1 .. Len(ps) |-> EngineHandValue(eng, ps, arrays, sizes, i - 1)]

NonCalls(legal) == SelectSeq(legal, LAMBDA a : a.type # "call_yaniv")

HasCall(legal) == \E k \in DOMAIN legal : legal[k].type = "call_yaniv"

\* the points the cards named by action a are worth in the hand
DiscardedValue(hand, a) == get_hand_value([k \in 1 .. Len(a.cards) |-> hand[a.cards[k] + 1]])

\* the discard get_action returns when it does not call: an element of
\* legal_actions, the one the generator's value r picks ("random") or the first
\* of those that shed the most points ("greedy")
DiscardChoice(hand, legal, r, pol) ==
    LET acts == NonCalls(legal)
    IN IF pol = "greedy"
       THEN acts[CHOOSE k \in DOMAIN acts :
                    /\ \A j \in DOMAIN acts :
                          DiscardedValue(hand, acts[j]) <= DiscardedValue(hand, acts[k])
                    /\ \A j \in 1 .. k - 1 :
                          DiscardedValue(hand, acts[j]) < DiscardedValue(hand, acts[k])]
       ELSE acts[(r % Len(acts)) + 1]

\* a loop without the turn cap
LoopConditionNoCap == ~game_over

\* the condition of play_game's while loop
LoopCondition == ~game_over /\ turn_count < max_turns

CurrentLegal == get_legal_actions(engine, players, hand_arrays, hand_sizes, current_player)

CurrentDiscard == DiscardChoice(players[current_player + 1].hand, CurrentLegal, rng, policy)

\* no genetic algorithm has been constructed
GAIdle ==
    /\ ga_kind = "base"
    /\ population_size = 0
    /\ top_k = 0
    /\ games_per_matchup = 0
    /\ num_generations = 0
    /\ gen = 0
    /\ generation = 0
    /\ nets = <<>>
    /\ weights = <<>>
    /\ population = <<>>
    /\ fitness_array = <<>>
    /\ wins_array = <<>>
    /\ games_array = <<>>
    /\ survivors = <<>>
    /\ best_fitness_history = <<>>
    /\ mutation_rate = DefaultRate
    /\ mutation_strength = DefaultRate
    /\ checkpoint = <<>>
    /\ games_log = <<>>
    /\ ga_pc = "idle"

\* no tournament is running
TournamentIdle ==
    /\ pending = {}
    /\ results_dict = <<>>
    /\ completed_matchups = 0
    /\ completed_games = 0
    /\ failed = {}
    /\ t_pc = "idle"
    /\ match_log = <<>>
    /\ match_wins = <<0, 0>>

\* no tournament of ParallelGameExecutorFixed is running
ProgressIdle ==
    /\ progress_queue = <<>>
    /\ progress_thread = "none"
    /\ futures = <<>>
    /\ collected = 0

\* no HallOfFame is followed
HofIdle ==
    /\ hall_of_fame = [size |-> 0, champions |-> <<>>]
    /\ hof_updates = 0
    /\ hof_result = [n |-> 0, raised |-> FALSE, selected |-> <<>>]
    /\ h_pc = "idle"

\* no evaluate_fitness is running
FitnessIdle ==
    /\ individual_idx = 0
    /\ include_hall_of_fame = TRUE
    /\ champions = 0
    /\ opponents_idx = <<>>
    /\ hof_opponents = 0
    /\ total_wins = 0
    /\ games_played = 0
    /\ base_fitness = <<>>
    /\ f_pc = "idle"

GameInit ==
    /\ GAIdle
    /\ TournamentIdle
    /\ FitnessIdle
    /\ HofIdle
    /\ ProgressIdle
    /\ engine \in Engines
    /\ policy \in Policies
    /\ rng \in {SeedRng(seed) : seed \in 1 .. NumSeeds}
    /\ deck = <<>>
    /\ discard_pile = <<>>
    /\ players = <<>>
    /\ current_player = 0
    /\ game_over = FALSE
    /\ winner = None
    /\ hand_arrays = <<>>
    /\ hand_sizes = <<>>
    /\ turn_count = 0
    /\ turn_phase = "none"
    /\ agents = <<>>
    /\ pc = "new"

\* play_game's call of initialize_game for n agents
InitializeGame ==
    /\ pc = "new"
    /\ \E n \in PlayerCounts :
        LET d == Shuffle(CreateDeck, rng)
            rest == DeckAfterDeal(d, n)
        IN /\ players' = [i \in 1 .. n |-> [hand |-> DealHand(d, i - 1), score |-> 0]]
           /\ discard_pile' = <<Last(rest)>>
           /\ deck' = Front(rest)
           /\ hand_arrays' = IF engine = "list" THEN <<>>
                             ELSE [i \in 1 .. n |-> UpdateHandArray(ZeroRows, DealHand(d, i - 1))]
           /\ hand_sizes' = IF engine = "list" THEN <<>> ELSE [i \in 1 .. n |-> HandSize]
    /\ game_over' = FALSE
    /\ winner' = None
    /\ current_player' = 0
    /\ turn_count' = 0
    /\ rng' = NextRng(rng)
    /\ pc' = "loop"
    /\ UNCHANGED <<engine, policy, turn_phase, agents, gaVars, tournamentVars, fitnessVars, progressVars>>

\* execute_action(player_idx, action) for a discard action, on the engine's state
ApplyDiscard(player_idx, action) ==
    LET res == ExecuteDiscard(players[player_idx + 1].hand, deck, discard_pile,
                              action, NextRng(rng))
    IN /\ players' = [players EXCEPT ![player_idx + 1].hand = res.hand]
       /\ deck' = res.deck
       /\ discard_pile' = res.discard_pile
       /\ hand_sizes' = IF engine = "list" THEN hand_sizes
                        ELSE [hand_sizes EXCEPT ![player_idx + 1] = Len(res.hand)]
       /\ hand_arrays' = IF engine = "list" THEN hand_arrays
                         ELSE [hand_arrays EXCEPT ![player_idx + 1] =
                                 UpdateHandArray(hand_arrays[player_idx + 1], res.hand)]
       /\ UNCHANGED <<game_over, winner>>

\* execute_action(player_idx, action) for call_yaniv, on the engine's state
ApplyYaniv(player_idx) ==
    LET res == HandleYanivCall(players, HandValues(engine, players, hand_arrays, hand_sizes),
                               player_idx)
    IN /\ players' = res.players
       /\ winner' = res.winner
       /\ game_over' = TRUE
       /\ UNCHANGED <<deck, discard_pile, hand_arrays, hand_sizes>>

\* one pass of the loop in which the agent discards (or, with no legal action at
\* all, the turn is skipped)
DiscardTurn ==
    /\ pc = "loop"
    /\ LoopCondition
    /\ IF CurrentLegal = <<>>
       THEN /\ current_player' = (current_player + 1) % Len(players)
            /\ UNCHANGED <<deck, discard_pile, players, game_over, winner, hand_arrays,
                           hand_sizes, turn_count, rng>>
       ELSE /\ NonCalls(CurrentLegal) # <<>>
            /\ ApplyDiscard(current_player, CurrentDiscard)
               /\ current_player' = (current_player + 1) % Len(players)
               /\ turn_count' = turn_count + 1
               /\ rng' = NextRng(NextRng(rng))
    /\ UNCHANGED <<engine, policy, pc, turn_phase, agents, gaVars, tournamentVars, fitnessVars, progressVars>>

\* one pass of the loop in which the agent, free to call, calls Yaniv
YanivTurn ==
    /\ pc = "loop"
    /\ LoopCondition
    /\ HasCall(CurrentLegal)
    /\ ApplyYaniv(current_player)
    /\ current_player' = (current_player + 1) % Len(players)
    /\ turn_count' = turn_count + 1
    /\ rng' = NextRng(NextRng(rng))
    /\ UNCHANGED <<engine, policy, pc, turn_phase, agents, gaVars, tournamentVars, fitnessVars, progressVars>>

\* an end of play_game that always names the winner by the hand values
FinishGameByHands ==
    /\ pc = "loop"
    /\ ~LoopCondition
    /\ winner' = FirstMin(HandValues(engine, players, hand_arrays, hand_sizes))
    /\ pc' = "done"
    /\ UNCHANGED <<engine, policy, deck, discard_pile, players, current_player,
                   game_over, hand_arrays, hand_sizes, turn_count, rng, turn_phase, agents,
                   gaVars, tournamentVars, fitnessVars, progressVars>>

\* the end of play_game: the winner by hand values when no call set one
FinishGame ==
    /\ pc = "loop"
    /\ ~LoopCondition
    /\ winner' = IF winner = None
                 THEN FirstMin(HandValues(engine, players, hand_arrays, hand_sizes))
                 ELSE winner
    /\ pc' = "done"
    /\ UNCHANGED <<engine, policy, deck, discard_pile, players, current_player,
                   game_over, hand_arrays, hand_sizes, turn_count, rng, turn_phase, agents,
                   gaVars, tournamentVars, fitnessVars, progressVars>>

GameNext == InitializeGame \/ DiscardTurn \/ YanivTurn \/ FinishGame

Spec == GameInit /\ [][GameNext]_vars

-----------------------------------------------------------------------------
(* execute_action with an action that get_legal_actions does not offer *)

\* actions a caller may hand over: a call, or a discard of one or two distinct
\* positions 0 .. len(hand), the last of which is no position of the hand
CandidateActions(hand) ==
    {CallYaniv} \cup
    {[type |-> t, cards |-> c, draw_from |-> d] :
        t \in {"discard_single", "discard_pair"},
        c \in {<<i>> : i \in 0 .. Len(hand)} \cup
              {<<x[1], x[2]>> : x \in {y \in (0 .. Len(hand)) \X (0 .. Len(hand)) : y[1] < y[2]}},
        d \in {"deck", "discard"}}

\* play_game's state after execute_action was given an action that is not in
\* get_legal_actions: hand.pop raises IndexError for a position outside the hand
\* (the highest position is popped first, so nothing has changed yet); any other
\* action is executed and execute_action returns True
MisuseAction ==
    /\ pc = "loop"
    /\ LoopCondition
    /\ turn_count < MaxMisuseTurn
    /\ \E a \in CandidateActions(players[current_player + 1].hand) :
        /\ a \notin Range(CurrentLegal)
        /\ IF a.type = "call_yaniv"
           THEN /\ ApplyYaniv(current_player)
                /\ pc' = "executed"
           ELSE IF \E k \in DOMAIN a.cards : a.cards[k] >= Len(players[current_player + 1].hand)
           THEN /\ pc' = "raised"
                /\ UNCHANGED <<deck, discard_pile, players, game_over, winner,
                               hand_arrays, hand_sizes>>
           ELSE /\ ApplyDiscard(current_player, a)
                /\ pc' = "executed"
    /\ UNCHANGED <<engine, policy, current_player, turn_count, rng, turn_phase, agents,
                   gaVars, tournamentVars, fitnessVars, progressVars>>

MisuseNext == GameNext \/ MisuseAction

MisuseSpec == GameInit /\ [][MisuseNext]_vars

-----------------------------------------------------------------------------
(* initialize_game for any number of players, pop by pop *)

\* k times self.deck.pop() or self._draw_card(), the drawn cards appended to
\* cards: [cards, deck]. A draw from the empty deck leaves None: the value that
\* _draw_card returns, and the sign that the list engine's pop has raised
RECURSIVE DrawCards(_, _, _)
DrawCards(dk, k, cards) ==
    IF k = 0 THEN [cards |-> cards, deck |-> dk]
    ELSE IF dk = <<>> THEN DrawCards(dk, k - 1, Append(cards, None))
    ELSE DrawCards(Front(dk), k - 1, Append(cards, Last(dk)))

\* a deal that goes on whatever was drawn
HasNoneIgnored(cards) == FALSE

\* some draw found the deck empty
HasNone(cards) == \E i \in DOMAIN cards : cards[i] = None

\* the cards before the first None: what _update_hand_array writes before
\* card['value'] raises
BeforeNone(cards) ==
    SubSeq(cards, 1, Cardinality({i \in DOMAIN cards : \A j \in 1 .. i : cards[j] # None}))

\* the dealing loop of initialize_game from player i on. The list engine raises
\* IndexError in the hand's list comprehension, the hand not yet assigned; the
\* optimized engine assigns the hand and its size, and raises TypeError in
\* _update_hand_array at the first None
RECURSIVE DealHands(_, _, _)
DealHands(eng, st, i) ==
    IF i = Len(st.players) THEN st
    ELSE LET drawn == DrawCards(st.deck, HandSize, <<>>)
         IN IF eng = "list"
            THEN IF HasNone(drawn.cards)
                 THEN [st EXCEPT !.raised = TRUE, !.deck = drawn.deck]
                 ELSE DealHands(eng, [st EXCEPT !.players[i + 1].hand = drawn.cards,
                                                !.deck = drawn.deck], i + 1)
            ELSE LET st1 == [st EXCEPT !.players[i + 1].hand = drawn.cards,
                                       !.deck = drawn.deck,
                                       !.hand_sizes[i + 1] = HandSize,
                                       !.hand_arrays[i + 1] =
                                           UpdateHandArray(@, BeforeNone(drawn.cards))]
                 IN IF HasNone(drawn.cards)
                    THEN [st1 EXCEPT !.raised = TRUE]
                    ELSE DealHands(eng, st1, i + 1)

\* initialize_game(ai_players) for n players on the shuffled deck d: the state
\* it leaves, and whether it raised
initialize_game(eng, d, n) ==
    LET st0 == [raised |-> FALSE,
                players |-> [i \in 1 .. n |-> [hand |-> <<>>, score |-> 0]],
                deck |-> d,
                discard_pile |-> <<>>,
                hand_arrays |-> IF eng = "list" THEN <<>> ELSE [i \in 1 .. n |-> ZeroRows],
                hand_sizes |-> IF eng = "list" THEN <<>> ELSE [i \in 1 .. n |-> 0]]
        dealt == DealHands(eng, st0, 0)
        top == DrawCards(dealt.deck, 1, <<>>)
    IN IF dealt.raised THEN dealt
       ELSE IF eng = "list" /\ HasNone(top.cards) THEN [dealt EXCEPT !.raised = TRUE]
       ELSE [dealt EXCEPT !.discard_pile = top.cards, !.deck = top.deck]

\* initialize_game is called on a new engine with any number of players
InitializeGameOnly ==
    /\ pc = "new"
    /\ \E n \in 0 .. MaxSeats :
          LET res == initialize_game(engine, Shuffle(CreateDeck, rng), n)
          IN /\ players' = res.players
             /\ deck' = res.deck
             /\ discard_pile' = res.discard_pile
             /\ hand_arrays' = res.hand_arrays
             /\ hand_sizes' = res.hand_sizes
             /\ pc' = IF res.raised THEN "raised" ELSE "dealt"
    /\ rng' = NextRng(rng)
    /\ UNCHANGED <<engine, policy, current_player, game_over, winner, turn_count, turn_phase,
                   agents, gaVars, tournamentVars, fitnessVars, progressVars>>

DealSpec == GameInit /\ [][InitializeGameOnly]_vars

-----------------------------------------------------------------------------
(* The tournament between the networks of a population *)

\* no game is being played
GameIdle ==
    /\ engine = "optimized"
    /\ policy = "random"
    /\ deck = <<>>
    /\ discard_pile = <<>>
    /\ players = <<>>
    /\ current_player = 0
    /\ game_over = FALSE
    /\ winner = None
    /\ hand_arrays = <<>>
    /\ hand_sizes = <<>>
    /\ turn_count = 0
    /\ turn_phase = "none"
    /\ agents = <<>>
    /\ pc = "idle"

RECURSIVE SumFun(_)
SumFun(f) ==
    IF DOMAIN f = {} THEN 0
    ELSE LET x == CHOOSE x \in DOMAIN f : TRUE
         IN f[x] + SumFun([y \in DOMAIN f \ {x} |-> f[y]])

\* the division wins / games_played made whatever the number of games
FitnessUnguarded(wins, games) == <<wins, games>>

\* wins / games_played as the fraction <<wins, games_played>>; the fitness 0 of a
\* network without games is <<0, 1>>
Fitness(wins, games) == IF games > 0 THEN <<wins, games>> ELSE <<0, 1>>

\* a < b on fitness values
FLess(a, b) == a[1] * b[2] < b[1] * a[2]

\* YanivNeuralNetwork(network_id): a new object with new random parameters
NewNetwork(ns, ws, network_id, r) ==
    [nets |-> Append(ns, [network_id |-> network_id, w |-> Len(ws) + 1,
                          fitness |-> <<0, 1>>, wins |-> 0, games_played |-> 0]),
     weights |-> Append(ws, r % 5)]

\* game.play_game([first, second]): the network object that wins game number k
\* of a matchup, the games' randomness being fixed by o
PlayGameWinner(o, first, second, k) ==
    IF (((o + 1) * (5 * first + 11 * second + 3 * k + 1)) % 7) % 2 = 0 THEN first ELSE second

\* play_single_matchup((player1, player2, g)): the seats alternate, a game counts
\* for player1 when the winner carries player1's network_id
play_single_matchup(ns, player1, player2, g, o) ==
    LET game_winner(game_num) ==
            IF game_num % 2 = 0 THEN PlayGameWinner(o, player1, player2, game_num)
            ELSE PlayGameWinner(o, player2, player1, game_num)
        p1_wins == Cardinality({game_num \in 0 .. g - 1 :
                        ns[game_winner(game_num)].network_id = ns[player1].network_id})
    IN [p1_id |-> ns[player1].network_id, p2_id |-> ns[player2].network_id,
        p1_wins |-> p1_wins, p2_wins |-> g - p1_wins]

\* the matchups in which every pair plays in both orders
TasksOrdered(n) == {t \in (0 .. n - 1) \X (0 .. n - 1) : t[1] # t[2]}

\* the tasks of the tournament: for i in range(n): for j in range(i + 1, n)
Tasks(n) == {t \in (0 .. n - 1) \X (0 .. n - 1) : t[1] < t[2]}

\* a merge that stores the matchup's result instead of adding it
MergeResultOverwrite(rd, res, g) ==
    LET r1 == [rd EXCEPT ![res.p1_id] = <<res.p1_wins, g>>]
    IN [r1 EXCEPT ![res.p2_id] = <<res.p2_wins, g>>]

\* the loop body over as_completed: add one matchup's result to results_dict
MergeResult(rd, res, g) ==
    LET r1 == [rd EXCEPT ![res.p1_id] = <<@[1] + res.p1_wins, @[2] + g>>]
    IN [r1 EXCEPT ![res.p2_id] = <<@[1] + res.p2_wins, @[2] + g>>]

\* results_dict once the matchups in done have been merged: per network_id the
\* sum of the wins and of the games of its matchups
TalliesOf(ns, pop, done, g, o) ==
    [key \in 0 .. Len(pop) - 1 |->
        LET res(t) == play_single_matchup(ns, pop[t[1] + 1], pop[t[2] + 1], g, o)
            as1 == {t \in done : ns[pop[t[1] + 1]].network_id = key}
            as2 == {t \in done : ns[pop[t[2] + 1]].network_id = key}
        IN <<SumFun([t \in as1 |-> res(t).p1_wins]) + SumFun([t \in as2 |-> res(t).p2_wins]),
             g * (Cardinality(as1) + Cardinality(as2))>>]

\* population of initialize_population: network i has network_id i
InitialNets(n) ==
    [i \in 1 .. n |-> [network_id |-> i - 1, w |-> i, fitness |-> <<0, 1>>,
                       wins |-> 0, games_played |-> 0]]

InitialWeights(n, r) == [i \in 1 .. n |-> (r + i) % 5]

\* evaluate_population_parallel has called play_tournament_parallel_with_progress
\* on a population of n networks
TournamentInit ==
    /\ FitnessIdle
    /\ HofIdle
    /\ ProgressIdle
    /\ GameIdle
    /\ rng \in {SeedRng(seed) : seed \in 1 .. NumSeeds}
    /\ ga_kind = "parallel"
    /\ population_size \in 2 .. MaxPop
    /\ top_k = 1
    /\ games_per_matchup \in 1 .. MaxGames
    /\ num_generations = 1
    /\ gen = 0
    /\ generation = 0
    /\ nets = InitialNets(population_size)
    /\ weights = InitialWeights(population_size, rng)
    /\ population = [i \in 1 .. population_size |-> i]
    /\ fitness_array = [i \in 1 .. population_size |-> <<0, 1>>]
    /\ wins_array = [i \in 1 .. population_size |-> 0]
    /\ games_array = [i \in 1 .. population_size |-> 0]
    /\ survivors = <<>>
    /\ best_fitness_history = <<>>
    /\ mutation_rate = DefaultRate
    /\ mutation_strength = DefaultRate
    /\ checkpoint = <<>>
    /\ games_log = <<>>
    /\ ga_pc = "evaluate"
    /\ pending = {}
    /\ results_dict = <<>>
    /\ completed_matchups = 0
    /\ completed_games = 0
    /\ failed = {}
    /\ t_pc = "start"
    /\ match_log = <<>>
    /\ match_wins = <<0, 0>>

\* all tasks are submitted to the pool, results_dict is initialised
SubmitTasks ==
    /\ t_pc = "start"
    /\ pending' = Tasks(Len(population))
    /\ results_dict' = [i \in 0 .. Len(population) - 1 |-> <<0, 0>>]
    /\ completed_matchups' = 0
    /\ completed_games' = 0
    /\ t_pc' = "running"
    /\ UNCHANGED <<gameVars, gaVars, failed, matchVars, fitnessVars, progressVars>>

\* as_completed yields the future of some task, whichever finished next, and the
\* loop body merges its result
CompleteTask ==
    /\ t_pc = "running"
    /\ \E t \in pending :
        /\ results_dict' = MergeResult(results_dict,
                               play_single_matchup(nets, population[t[1] + 1],
                                                   population[t[2] + 1],
                                                   games_per_matchup, rng),
                               games_per_matchup)
        /\ pending' = pending \ {t}
    /\ completed_matchups' = completed_matchups + 1
    /\ completed_games' = completed_games + games_per_matchup
    /\ UNCHANGED <<gameVars, gaVars, failed, t_pc, matchVars, fitnessVars, progressVars>>

\* as_completed is exhausted: return results_dict
ReturnResults ==
    /\ t_pc = "running"
    /\ pending = {}
    /\ t_pc' = "returned"
    /\ UNCHANGED <<gameVars, gaVars, pending, results_dict, completed_matchups,
                   completed_games, failed, matchVars, fitnessVars, progressVars>>

TournamentNext == SubmitTasks \/ CompleteTask \/ ReturnResults

TournamentSpec == TournamentInit /\ [][TournamentNext]_vars

\* the task of some future failed in its worker: future.result() raises the
\* worker's exception in the loop over as_completed, nothing catches it, and it
\* leaves play_tournament_parallel_with_progress (and evaluate_population_parallel)
FailTask ==
    /\ t_pc = "running"
    /\ \E t \in pending : failed' = failed \cup {t}
    /\ t_pc' = "raised"
    /\ UNCHANGED <<gameVars, gaVars, pending, results_dict, completed_matchups,
                   completed_games, matchVars, fitnessVars, progressVars>>

FailureNext == TournamentNext \/ FailTask

\* the tournament with workers that may fail
FailureSpec == TournamentInit /\ [][FailureNext]_vars

------------------------------------------------------------------------------
(* ParallelGameExecutorFixed.play_tournament_parallel_with_progress: the main *)
(* thread, the worker tasks of the pool and the progress thread              *)

\* matchups: for i in range(n): for j in range(i + 1, n), in the order of the loops
MatchupList(n) == SortByKey({<<t[1] * (n + 1) + t[2], t>> : t \in Tasks(n)})

\* chunk_size = max(1, len(matchups) // (self.num_workers * 4))
chunk_size(m) == IF m \div (NumWorkers * 4) > 1 THEN m \div (NumWorkers * 4) ELSE 1

\* matchup_chunks = [matchups[i:i + chunk_size] for i in range(0, len(matchups), chunk_size)]
matchup_chunks(ms) ==
    LET cs == chunk_size(Len(ms))
        count == (Len(ms) + cs - 1) \div cs
    IN [k \in 1 .. count |->
           SubSeq(ms, (k - 1) * cs + 1, IF k * cs < Len(ms) THEN k * cs ELSE Len(ms))]

\* the for loop over zip(chunk, chunk_results): every matchup's wins and games
\* are added to the entries of its two network_ids
RECURSIVE MergeChunk(_, _, _)
MergeChunk(rd, chunk_results, g) ==
    IF chunk_results = <<>> THEN rd
    ELSE MergeChunk(MergeResult(rd, Head(chunk_results), g), Tail(chunk_results), g)

\* a progress thread that adds one per message
update_progress_by_one(count, games) == count + 1

\* update_progress on a message that is no sentinel: completed_games += games
update_progress(count, games) == count + games

\* a sentinel that is put only when no exception is on its way
put_sentinel_on_success(q, raising) == IF raising THEN q ELSE Append(q, -1)

\* the finally clause: progress_queue.put(-1), whether or not an exception is
\* on its way
put_sentinel(q, raising) == Append(q, -1)

\* the pool runs the task of future f: it has started, or it is the next one
\* in the pool's queue and one of the num_workers processes is free
WorkerRuns(f) ==
    \/ futures[f].state = "running"
    \/ /\ futures[f].state = "queued"
       /\ \A e \in 1 .. f - 1 : futures[e].state # "queued"
       /\ Cardinality({e \in DOMAIN futures : futures[e].state = "running"}) < NumWorkers

\* every task of the pool has ended
AllFinished == \A f \in DOMAIN futures : futures[f].state \in {"done", "raised"}

\* play_tournament_parallel_with_progress(population, games_per_matchup) is called;
\* the module names YanivGameAIOptimized without defining or importing it
\* (engine "undefined"), unless the class is put into it as its line 12 asks
\* (engine "optimized")
ProgressInit ==
    /\ FitnessIdle
    /\ HofIdle
    /\ engine \in {"undefined", "optimized"}
    /\ policy = "random"
    /\ deck = <<>>
    /\ discard_pile = <<>>
    /\ players = <<>>
    /\ current_player = 0
    /\ game_over = FALSE
    /\ winner = None
    /\ hand_arrays = <<>>
    /\ hand_sizes = <<>>
    /\ turn_count = 0
    /\ turn_phase = "none"
    /\ agents = <<>>
    /\ pc = "idle"
    /\ rng \in {SeedRng(seed) : seed \in 1 .. NumSeeds}
    /\ ga_kind = "parallel"
    /\ population_size \in 1 .. MaxPop
    /\ top_k = 1
    /\ games_per_matchup \in 1 .. MaxGames
    /\ num_generations = 1
    /\ gen = 0
    /\ generation = 0
    /\ nets = InitialNets(population_size)
    /\ weights = InitialWeights(population_size, rng)
    /\ population = [i \in 1 .. population_size |-> i]
    /\ fitness_array = [i \in 1 .. population_size |-> <<0, 1>>]
    /\ wins_array = [i \in 1 .. population_size |-> 0]
    /\ games_array = [i \in 1 .. population_size |-> 0]
    /\ survivors = <<>>
    /\ best_fitness_history = <<>>
    /\ mutation_rate = DefaultRate
    /\ mutation_strength = DefaultRate
    /\ checkpoint = <<>>
    /\ games_log = <<>>
    /\ ga_pc = "evaluate"
    /\ pending = {}
    /\ results_dict = <<>>
    /\ completed_matchups = 0
    /\ completed_games = 0
    /\ failed = {}
    /\ t_pc = "new"
    /\ match_log = <<>>
    /\ match_wins = <<0, 0>>
    /\ progress_queue = <<>>
    /\ progress_thread = "none"
    /\ futures = <<>>
    /\ collected = 0

ProgressFrame ==
    UNCHANGED <<gameVars, gaVars, pending, completed_matchups, failed, matchVars,
                fitnessVars>>

\* the method up to the loop over the futures: the chunks are made, the
\* progress thread is started and every chunk is submitted to the pool
StartTournament ==
    /\ t_pc = "new"
    /\ results_dict' = [i \in 0 .. Len(population) - 1 |-> <<0, 0>>]
    /\ progress_queue' = <<>>
    /\ completed_games' = 0
    /\ progress_thread' = "running"
    /\ futures' = LET chunks == matchup_chunks(MatchupList(Len(population)))
                  IN [k \in DOMAIN chunks |->
                         [chunk |-> chunks[k], played |-> 0, results |-> <<>>,
                          state |-> "queued"]]
    /\ collected' = 0
    /\ t_pc' = "collect"
    /\ ProgressFrame

\* play_games_batch_with_progress plays the next matchup of its chunk, appends
\* its result and puts games_per_matchup on the queue; after the last matchup
\* it returns the results
WorkerPlayMatchup ==
    /\ engine = "optimized"
    /\ \E f \in DOMAIN futures :
        /\ WorkerRuns(f)
        /\ LET fut == futures[f]
               m == fut.chunk[fut.played + 1]
               res == play_single_matchup(nets, population[m[1] + 1], population[m[2] + 1],
                                          games_per_matchup, rng)
           IN futures' = [futures EXCEPT ![f] =
                             [chunk |-> fut.chunk,
                              played |-> fut.played + 1,
                              results |-> Append(fut.results, res),
                              state |-> IF fut.played + 1 = Len(fut.chunk)
                                        THEN "done" ELSE "running"]]
    /\ progress_queue' = Append(progress_queue, games_per_matchup)
    /\ UNCHANGED <<results_dict, completed_games, t_pc, progress_thread, collected>>
    /\ ProgressFrame

\* a game of the task raises: NameError at YanivGameAIOptimized() as the module
\* stands, or the worker fails otherwise; the exception is kept in the future
WorkerRaise ==
    /\ \E f \in DOMAIN futures :
        /\ WorkerRuns(f)
        /\ futures' = [futures EXCEPT ![f].state = "raised"]
    /\ UNCHANGED <<results_dict, completed_games, t_pc, progress_thread, collected,
                   progress_queue>>
    /\ ProgressFrame

\* a pass of `for chunk, future in futures`: future.result() returns and the
\* chunk's results are merged
CollectResult ==
    /\ t_pc = "collect"
    /\ collected < Len(futures)
    /\ futures[collected + 1].state = "done"
    /\ results_dict' = MergeChunk(results_dict, futures[collected + 1].results,
                                  games_per_matchup)
    /\ collected' = collected + 1
    /\ UNCHANGED <<completed_games, t_pc, progress_thread, progress_queue, futures>>
    /\ ProgressFrame

\* future.result() raises the exception of its task: it leaves the loop
CollectRaise ==
    /\ t_pc = "collect"
    /\ collected < Len(futures)
    /\ futures[collected + 1].state = "raised"
    /\ t_pc' = "exit_raise"
    /\ UNCHANGED <<results_dict, completed_games, progress_thread, progress_queue, futures,
                   collected>>
    /\ ProgressFrame

\* the loop over the futures ends
CollectDone ==
    /\ t_pc = "collect"
    /\ collected = Len(futures)
    /\ t_pc' = "exit"
    /\ UNCHANGED <<results_dict, completed_games, progress_thread, progress_queue, futures,
                   collected>>
    /\ ProgressFrame

\* the with block is left: the executor's shutdown waits for every task; then
\* the finally clause puts the sentinel
ExitExecutor ==
    /\ t_pc \in {"exit", "exit_raise"}
    /\ AllFinished
    /\ progress_queue' = put_sentinel(progress_queue, t_pc = "exit_raise")
    /\ t_pc' = IF t_pc = "exit" THEN "join" ELSE "join_raise"
    /\ UNCHANGED <<results_dict, completed_games, progress_thread, futures, collected>>
    /\ ProgressFrame

\* a pass of update_progress's loop in which get returns a message (a pass that
\* times out on the empty queue changes nothing)
UpdateProgress ==
    /\ progress_thread = "running"
    /\ progress_queue # <<>>
    /\ progress_queue' = Tail(progress_queue)
    /\ IF Head(progress_queue) = -1
       THEN /\ progress_thread' = "finished"
            /\ UNCHANGED completed_games
       ELSE /\ completed_games' = update_progress(completed_games, Head(progress_queue))
            /\ UNCHANGED progress_thread
    /\ UNCHANGED <<results_dict, t_pc, futures, collected>>
    /\ ProgressFrame

\* progress_thread.join() returns; the method returns results_dict, or the
\* exception goes on to the caller
JoinProgressThread ==
    /\ t_pc \in {"join", "join_raise"}
    /\ progress_thread = "finished"
    /\ t_pc' = IF t_pc = "join" THEN "returned" ELSE "raised"
    /\ UNCHANGED <<results_dict, completed_games, progress_thread, progress_queue, futures,
                   collected>>
    /\ ProgressFrame

ProgressNext ==
    \/ StartTournament
    \/ WorkerPlayMatchup
    \/ WorkerRaise
    \/ CollectResult
    \/ CollectRaise
    \/ CollectDone
    \/ ExitExecutor
    \/ UpdateProgress
    \/ JoinProgressThread

ProgressSpec == ProgressInit /\ [][ProgressNext]_vars

\* a tournament with progress report of either executor: SimpleParallelExecutor
\* counts in its loop over as_completed, ParallelGameExecutorFixed in its
\* progress thread
ProgressCountInit == ProgressInit \/ TournamentInit

ProgressCountNext == ProgressNext \/ TournamentNext

ProgressCountSpec == ProgressCountInit /\ [][ProgressCountNext]_vars

-----------------------------------------------------------------------------
(* One matchup, game by game *)

\* seats that never change: player1 always starts
SeatsFixed(player1, player2, game_num) == <<player1, player2>>

\* the list given to play_game for game number game_num: player1 starts the
\* even games, player2 the odd ones
Seats(player1, player2, game_num) ==
    IF game_num % 2 = 0 THEN <<player1, player2>> ELSE <<player2, player1>>

\* the test that credits a game to player1: the winner is the object player1
\* (evaluate_population), or carries player1's network_id (play_single_matchup,
\* play_games_batch)
CreditedToPlayer1(kind, ns, game_winner, player1) ==
    IF kind = "base" THEN game_winner = player1
    ELSE ns[game_winner].network_id = ns[player1].network_id

\* a matchup between the two networks of a population is about to be played
MatchupInit ==
    /\ FitnessIdle
    /\ HofIdle
    /\ ProgressIdle
    /\ GameIdle
    /\ rng \in {SeedRng(seed) : seed \in 1 .. NumSeeds}
    /\ ga_kind \in {"base", "parallel"}
    /\ population_size = 2
    /\ top_k = 1
    /\ games_per_matchup \in 1 .. MaxMatchGames
    /\ num_generations = 1
    /\ gen = 0
    /\ generation = 0
    /\ nets = InitialNets(population_size)
    /\ weights = InitialWeights(population_size, rng)
    /\ population = [i \in 1 .. population_size |-> i]
    /\ fitness_array = <<>>
    /\ wins_array = <<>>
    /\ games_array = <<>>
    /\ survivors = <<>>
    /\ best_fitness_history = <<>>
    /\ mutation_rate = DefaultRate
    /\ mutation_strength = DefaultRate
    /\ checkpoint = <<>>
    /\ games_log = <<>>
    /\ ga_pc = "evaluate"
    /\ pending = {}
    /\ results_dict = <<>>
    /\ completed_matchups = 0
    /\ completed_games = 0
    /\ failed = {}
    /\ t_pc = "matchup"
    /\ match_log = <<>>
    /\ match_wins = <<0, 0>>

\* a pass of `for game_num in range(games_per_matchup)`: the game is played with
\* the seats of its number and counted for player1 or for player2
PlayMatchupGame ==
    /\ t_pc = "matchup"
    /\ Len(match_log) < games_per_matchup
    /\ LET game_num == Len(match_log)
           player1 == population[1]
           player2 == population[2]
           seats == Seats(player1, player2, game_num)
           game_winner == PlayGameWinner(rng, seats[1], seats[2], game_num)
       IN /\ match_log' = Append(match_log, [first |-> seats[1], second |-> seats[2],
                                             winner |-> game_winner])
          /\ match_wins' = IF CreditedToPlayer1(ga_kind, nets, game_winner, player1)
                           THEN <<match_wins[1] + 1, match_wins[2]>>
                           ELSE <<match_wins[1], match_wins[2] + 1>>
    /\ UNCHANGED <<gameVars, gaVars, pending, results_dict, completed_matchups,
                   completed_games, failed, t_pc, fitnessVars, progressVars>>

\* the loop is over: the wins are returned
ReturnMatchup ==
    /\ t_pc = "matchup"
    /\ Len(match_log) = games_per_matchup
    /\ t_pc' = "matched"
    /\ UNCHANGED <<gameVars, gaVars, pending, results_dict, completed_matchups,
                   completed_games, failed, matchVars, fitnessVars, progressVars>>

MatchupNext == PlayMatchupGame \/ ReturnMatchup

MatchupSpec == MatchupInit /\ [][MatchupNext]_vars

-----------------------------------------------------------------------------
(* The generational loop: evolve and evolve_parallel *)

GAKinds == {"base", "parallel", "vectorized"}

\* the population sizes of an algorithm: the small ones and, for the batched
\* evaluation, one network more than a batch
PopSizes(kind) ==
    (1 .. MaxPop) \cup (IF kind = "vectorized" THEN {BatchSize + 1} ELSE {})

\* the values of top_k: fewer than MaxPop networks of a generation are new
TopKs(n) == {k \in 1 .. n : n - k < MaxPop}

Reverse(s) == [i \in 1 .. Len(s) |-> s[Len(s) + 1 - i]]

\* the number of fitness values of fs that are strictly smaller than f
Rank(f, fs) == Cardinality({i \in DOMAIN fs : FLess(fs[i], f)})

\* the fitness of the networks of a population, by population index
FitnessOf(ns, pop) == [i \in 1 .. Len(pop) |-> ns[pop[i]].fitness]

\* the matchup of evaluate_population: a game counts for player1 when the winner
\* is the object player1
MatchupWins(player1, player2, g, o) ==
    Cardinality({game_num \in 0 .. g - 1 :
        player1 = (IF game_num % 2 = 0 THEN PlayGameWinner(o, player1, player2, game_num)
                   ELSE PlayGameWinner(o, player2, player1, game_num))})

\* evaluate_population: the tallies are reset, every task is played, the fitness
\* is the win rate
EvaluatedNets(ns, pop, g, o) ==
    LET T == Tasks(Len(pop))
        members == Range(pop)
    IN [r \in DOMAIN ns |->
          IF r \in members
          THEN LET as1 == {t \in T : pop[t[1] + 1] = r}
                   as2 == {t \in T : pop[t[2] + 1] = r}
                   wins == SumFun([t \in as1 |->
                                      MatchupWins(pop[t[1] + 1], pop[t[2] + 1], g, o)])
                           + SumFun([t \in as2 |->
                                      g - MatchupWins(pop[t[1] + 1], pop[t[2] + 1], g, o)])
                   games == g * (Cardinality(as1) + Cardinality(as2))
               IN [ns[r] EXCEPT !.wins = wins, !.games_played = games,
                                !.fitness = Fitness(wins, games)]
          ELSE ns[r]]

\* _simulate_games_vectorized(player1, player2, num_games): player1's wins
simulate_games_vectorized(ns, player1, player2, num_games, o) ==
    play_single_matchup(ns, player1, player2, num_games, o).p1_wins

\* the (player, opponent) index pairs of evaluate_population_vectorized: the
\* player is in a batch of batch_size networks, the opponent outside of it
\* (the batches start at the multiples of batch_size)
InOtherBatch(n, player_idx, opponent_idx) ==
    LET batch_size == IF BatchSize < n THEN BatchSize ELSE n
    IN player_idx \div batch_size # opponent_idx \div batch_size

BatchPairs(n) == {t \in (0 .. n - 1) \X (0 .. n - 1) : InOtherBatch(n, t[1], t[2])}

\* evaluate_population_vectorized: the tallies are reset, every batch plays the
\* networks outside of it, the fitness is the win rate
EvaluatedNetsVectorized(ns, pop, g, o) ==
    LET B == BatchPairs(Len(pop))
        members == Range(pop)
        sim(t) == simulate_games_vectorized(ns, pop[t[1] + 1], pop[t[2] + 1], g, o)
    IN [r \in DOMAIN ns |->
          IF r \in members
          THEN LET asPlayer == {t \in B : pop[t[1] + 1] = r}
                   asOpponent == {t \in B : pop[t[2] + 1] = r}
                   wins == SumFun([t \in asPlayer |-> sim(t)])
                           + SumFun([t \in asOpponent |-> g - sim(t)])
                   games == g * (Cardinality(asPlayer) + Cardinality(asOpponent))
               IN [ns[r] EXCEPT !.wins = wins, !.games_played = games,
                                !.fitness = Fitness(wins, games)]
          ELSE ns[r]]

\* sorted(population, key=fitness, reverse=True): descending, and stable
SortedByFitness(ns, pop) ==
    LET n == Len(pop)
        fs == FitnessOf(ns, pop)
    IN SortByKey({<<(n - Rank(fs[i], fs)) * (n + 1) + i, pop[i]>> : i \in 1 .. n})

\* np.argsort(fs)[::-1]: the indices by ascending fitness, reversed; the order
\* that argsort gives to equal values is not specified, tie names it
ArgsortReversed(fs, tie) ==
    LET n == Len(fs)
    IN Reverse(SortByKey({<<Rank(fs[i], fs) * (n + 1) + (IF tie = "stable" THEN i ELSE n - i),
                            i - 1>> : i \in 1 .. n}))

\* survivors that keep the network_id they had
RenumberedNever(ns, survs) == ns

\* for i, survivor in enumerate(survivors): survivor.network_id = i
Renumbered(ns, survs) ==
    [r \in DOMAIN ns |->
        IF r \in Range(survs)
        THEN [ns[r] EXCEPT !.network_id = (CHOOSE i \in DOMAIN survs : survs[i] = r) - 1]
        ELSE ns[r]]

\* parent.copy(): a new network with the parent's network_id and copies of its
\* parameter arrays; the new object is the last of nets
Copy(ns, ws, parent) ==
    [nets |-> Append(ns, [network_id |-> ns[parent].network_id, w |-> Len(ws) + 1,
                          fitness |-> <<0, 1>>, wins |-> 0, games_played |-> 0]),
     weights |-> Append(ws, ws[ns[parent].w])]

\* network.mutate(rate, strength): the parameter array changes in place
Mutate(ns, ws, ref, r) == [ws EXCEPT ![ns[ref].w] = @ + (r % 3)]

\* mutant = survivor.copy(); mutant.network_id = current_id; mutant.mutate(...)
MutatedCopy(ns, ws, parent, current_id, r) ==
    LET c == Copy(ns, ws, parent)
        ref == Len(c.nets)
        ns1 == [c.nets EXCEPT ![ref].network_id = current_id]
    IN [nets |-> ns1, weights |-> Mutate(ns1, c.weights, ref, r)]

\* the loops of create_next_generation after the survivors are kept: up to three
\* mutated copies per survivor, then new random networks, until the population
\* has population_size networks
RECURSIVE FillBase(_, _, _, _)
FillBase(st, survs, size, m) ==
    IF Len(st.pop) >= size THEN st
    ELSE LET current_id == Len(st.pop)
             made == IF m < 3 * Len(survs)
                     THEN MutatedCopy(st.nets, st.weights, survs[(m \div 3) + 1],
                                      current_id, st.r)
                     ELSE NewNetwork(st.nets, st.weights, current_id, st.r)
         IN FillBase([nets |-> made.nets, weights |-> made.weights,
                      pop |-> Append(st.pop, Len(made.nets)), r |-> NextRng(st.r)],
                     survs, size, m + 1)

\* np.random.choice(k, 3, replace=False): three distinct indices below k (k >= 3)
TournamentIndices(k, r) ==
    LET a == Stride(k, r)
    IN [j \in 1 .. 3 |-> (r + (j - 1) * a) % k]

\* tournament_indices[np.argmax(tournament_fitness)]: the first maximum
TournamentWinner(ns, survs, idx) ==
    LET f(j) == ns[survs[idx[j] + 1]].fitness
        best == CHOOSE j \in 1 .. 3 : /\ \A m \in 1 .. 3 : ~FLess(f(j), f(m))
                                      /\ \A m \in 1 .. j - 1 : FLess(f(m), f(j))
    IN idx[best]

\* the offspring loop of create_next_generation_optimized (at least three
\* survivors): a mutated copy of a tournament winner, one time in ten replaced
\* by a new random network
RECURSIVE Offspring(_, _, _)
Offspring(st, survs, num_offspring) ==
    IF num_offspring = 0 THEN st
    ELSE LET current_id == Len(st.pop)
             winner_idx == TournamentWinner(st.nets, survs,
                                            TournamentIndices(Len(survs), st.r))
             r1 == NextRng(st.r)
             r2 == NextRng(r1)
             child == MutatedCopy(st.nets, st.weights, survs[winner_idx + 1], current_id, r1)
             made == IF r2 % 10 = 0
                     THEN NewNetwork(child.nets, child.weights, current_id, NextRng(r2))
                     ELSE child
         IN Offspring([nets |-> made.nets, weights |-> made.weights,
                       pop |-> Append(st.pop, Len(made.nets)), r |-> NextRng(NextRng(r2))],
                      survs, num_offspring - 1)

\* GeneticAlgorithm(population_size, top_k) or GeneticAlgorithmOptimized(...) is
\* constructed and evolve(num_generations, games_per_matchup) is about to start
GAInit ==
    /\ FitnessIdle
    /\ HofIdle
    /\ ProgressIdle
    /\ GameIdle
    /\ TournamentIdle
    /\ rng \in {SeedRng(seed) : seed \in 1 .. NumSeeds}
    /\ ga_kind \in GAKinds
    /\ population_size \in PopSizes(ga_kind)
    /\ top_k \in TopKs(population_size)
    /\ games_per_matchup \in 1 .. MaxGames
    /\ num_generations \in 1 .. MaxGenerations
    /\ gen = 0
    /\ generation = 0
    /\ nets = <<>>
    /\ weights = <<>>
    /\ population = <<>>
    /\ fitness_array = IF ga_kind = "base" THEN <<>>
                       ELSE [i \in 1 .. population_size |-> <<0, 1>>]
    /\ wins_array = IF ga_kind = "base" THEN <<>> ELSE [i \in 1 .. population_size |-> 0]
    /\ games_array = IF ga_kind = "base" THEN <<>> ELSE [i \in 1 .. population_size |-> 0]
    /\ survivors = <<>>
    /\ best_fitness_history = <<>>
    /\ mutation_rate = DefaultRate
    /\ mutation_strength = DefaultRate
    /\ checkpoint = <<>>
    /\ games_log = <<>>
    /\ ga_pc = "new"

\* initialize_population
InitializePopulation ==
    /\ ga_pc = "new"
    /\ nets' = InitialNets(population_size)
    /\ weights' = InitialWeights(population_size, rng)
    /\ population' = [i \in 1 .. population_size |-> i]
    /\ rng' = NextRng(rng)
    /\ ga_pc' = "evaluate"
    /\ UNCHANGED <<engine, deck, discard_pile, players, current_player, game_over, winner,
                   hand_arrays, hand_sizes, turn_count, pc, policy, turn_phase,
                   agents>>
    /\ UNCHANGED <<ga_kind, population_size, top_k, games_per_matchup, num_generations, gen,
                   generation, fitness_array, wins_array, games_array, survivors,
                   best_fitness_history, mutation_rate,
                   mutation_strength, checkpoint, games_log, tournamentVars, fitnessVars, progressVars>>

\* what no step of the generational loop changes
LoopFrame ==
    UNCHANGED <<engine, deck, discard_pile, players, current_player, game_over, winner,
                hand_arrays, hand_sizes, turn_count, pc, policy, turn_phase, agents,
                ga_kind,
                population_size, top_k, games_per_matchup, num_generations,
                tournamentVars, fitnessVars, progressVars>>

\* GeneticAlgorithm.evaluate_population
EvaluatePopulation ==
    /\ ga_pc = "evaluate"
    /\ ga_kind = "base"
    /\ nets' = EvaluatedNets(nets, population, games_per_matchup, rng)
    /\ games_log' = [t \in Tasks(Len(population)) |-> games_per_matchup]
    /\ rng' = NextRng(rng)
    /\ ga_pc' = "select"
    /\ LoopFrame
    /\ UNCHANGED <<gen, generation, weights, population, fitness_array, wins_array,
                   games_array, survivors, best_fitness_history, mutation_rate,
                   mutation_strength, checkpoint>>

\* GeneticAlgorithmOptimized.evaluate_population_parallel: the tournament's
\* tallies go to the arrays by network_id, the arrays to the networks by index
EvaluatePopulationParallel ==
    /\ ga_pc = "evaluate"
    /\ ga_kind = "parallel"
    /\ LET n == Len(population)
           results == TalliesOf(nets, population, Tasks(n), games_per_matchup, rng)
           wa == [i \in 1 .. population_size |-> results[i - 1][1]]
           gm == [i \in 1 .. population_size |-> results[i - 1][2]]
           fa == [i \in 1 .. population_size |-> Fitness(wa[i], gm[i])]
       IN /\ wins_array' = wa
          /\ games_array' = gm
          /\ fitness_array' = fa
          /\ nets' = [r \in DOMAIN nets |->
                        IF r \in Range(population)
                        THEN LET i == CHOOSE i \in DOMAIN population : population[i] = r
                             IN [nets[r] EXCEPT !.wins = wa[i], !.games_played = gm[i],
                                                !.fitness = fa[i]]
                        ELSE nets[r]]
          /\ games_log' = [t \in Tasks(n) |-> games_per_matchup]
    /\ rng' = NextRng(rng)
    /\ ga_pc' = "select"
    /\ LoopFrame
    /\ UNCHANGED <<gen, generation, weights, population, survivors, best_fitness_history,
                   mutation_rate, mutation_strength, checkpoint>>

\* GeneticAlgorithmOptimized.evaluate_population_vectorized: only the networks'
\* own tallies are written
EvaluatePopulationVectorized ==
    /\ ga_pc = "evaluate"
    /\ ga_kind = "vectorized"
    /\ nets' = EvaluatedNetsVectorized(nets, population, games_per_matchup, rng)
    /\ games_log' = [t \in Tasks(Len(population)) |->
                        IF InOtherBatch(Len(population), t[1], t[2])
                        THEN 2 * games_per_matchup ELSE 0]
    /\ rng' = NextRng(rng)
    /\ ga_pc' = "select"
    /\ LoopFrame
    /\ UNCHANGED <<gen, generation, weights, population, fitness_array, wins_array,
                   games_array, survivors, best_fitness_history, mutation_rate,
                   mutation_strength, checkpoint>>

\* the least common multiple of the denominators of the fractions fs
RECURSIVE CommonDenominator(_)
CommonDenominator(fs) ==
    IF fs = <<>> THEN 1
    ELSE LET d == CommonDenominator(Tail(fs))
         IN (d * fs[1][2]) \div GCD(d, fs[1][2])

\* np.var(recent_fitness) < 0.001 for the fractions fs: with v the numerators
\* over the common denominator D and n values, the variance is
\* (n * sum(v^2) - sum(v)^2) / (n^2 * D^2)
Plateau(fs) ==
    LET D == CommonDenominator(fs)
        n == Len(fs)
        v == [i \in 1 .. n |-> fs[i][1] * (D \div fs[i][2])]
        s1 == SumSeq(v)
        s2 == SumSeq([i \in 1 .. n |-> v[i] * v[i]])
    IN 1000 * (n * s2 - s1 * s1) < n * n * D * D

\* an adaptation without the bounds min(0.3, .) and max(0.05, .)
adaptive_mutation_rate_unbounded(history, x) ==
    IF Len(history) > 5
    THEN IF Plateau(SubSeq(history, Len(history) - 4, Len(history)))
         THEN (x * 12) \div 10
         ELSE (x * 95) \div 100
    ELSE x

\* adaptive_mutation_rate: the new value of self.mutation_rate, and of
\* self.mutation_strength, whose old value is x
adaptive_mutation_rate(history, x) ==
    IF Len(history) > 5
    THEN IF Plateau(SubSeq(history, Len(history) - 4, Len(history)))
         THEN (IF (x * 12) \div 10 < MaxRate THEN (x * 12) \div 10 ELSE MaxRate)
         ELSE (IF (x * 95) \div 100 > MinRate THEN (x * 95) \div 100 ELSE MinRate)
    ELSE x

\* the dictionary that save_checkpoint pickles: the fields of the algorithm and,
\* for every network of the population in order, its id, the values of its
\* parameter arrays (tolist) and its tallies
save_checkpoint(g, size, k, rate, strength, history, ns, ws, pop) ==
    [generation |-> g,
     population_size |-> size,
     top_k |-> k,
     mutation_rate |-> rate,
     mutation_strength |-> strength,
     best_fitness_history |-> history,
     population_weights |->
        [i \in 1 .. Len(pop) |->
            [network_id |-> ns[pop[i]].network_id,
             w |-> ws[ns[pop[i]].w],
             fitness |-> ns[pop[i]].fitness,
             wins |-> ns[pop[i]].wins,
             games_played |-> ns[pop[i]].games_played]]]

\* survivors = self.select_survivors(); best_fitness_history.append(...)
SelectSurvivors ==
    /\ ga_pc = "select"
    /\ ga_kind = "base"
    /\ LET s == SubSeq(SortedByFitness(nets, population), 1, top_k)
       IN /\ survivors' = s
          /\ best_fitness_history' = Append(best_fitness_history, nets[s[1]].fitness)
    /\ ga_pc' = "breed"
    /\ LoopFrame
    /\ UNCHANGED <<mutation_rate, mutation_strength, checkpoint>>
    /\ UNCHANGED <<gen, generation, nets, weights, population, fitness_array, wins_array,
                   games_array, games_log, rng>>

\* survivors = self.select_survivors_vectorized(); best_fitness_history.append(...)
SelectSurvivorsVectorized ==
    /\ ga_pc = "select"
    /\ ga_kind # "base"
    /\ \E tie \in {"stable", "unstable"} :
        LET top_indices == SubSeq(ArgsortReversed(fitness_array, tie), 1, top_k)
            s == [i \in 1 .. Len(top_indices) |-> population[top_indices[i] + 1]]
            history == Append(best_fitness_history, nets[s[1]].fitness)
        IN /\ survivors' = s
           /\ best_fitness_history' = history
           /\ checkpoint' = IF (gen + 1) % save_interval = 0
                            THEN <<save_checkpoint(generation, population_size, top_k,
                                                   mutation_rate, mutation_strength, history,
                                                   nets, weights, population)>>
                            ELSE checkpoint
           /\ mutation_rate' = adaptive_mutation_rate(history, mutation_rate)
           /\ mutation_strength' = adaptive_mutation_rate(history, mutation_strength)
    /\ ga_pc' = "breed"
    /\ LoopFrame
    /\ UNCHANGED <<gen, generation, nets, weights, population, fitness_array, wins_array,
                   games_array, games_log, rng>>

\* GeneticAlgorithm.create_next_generation, and the next pass of evolve's loop
CreateNextGeneration ==
    /\ ga_pc = "breed"
    /\ ga_kind = "base"
    /\ gen < num_generations - 1
    /\ LET st == FillBase([nets |-> Renumbered(nets, survivors), weights |-> weights,
                           pop |-> survivors, r |-> rng],
                          survivors, population_size, 0)
       IN /\ nets' = st.nets
          /\ weights' = st.weights
          /\ population' = st.pop
          /\ rng' = st.r
    /\ generation' = generation + 1
    /\ gen' = gen + 1
    /\ ga_pc' = "evaluate"
    /\ LoopFrame
    /\ UNCHANGED <<fitness_array, wins_array, games_array, survivors,
                   best_fitness_history, mutation_rate,
                   mutation_strength, checkpoint, games_log>>

\* GeneticAlgorithmOptimized.create_next_generation_optimized, and the next pass
\* of evolve_parallel's loop; np.random.choice raises ValueError when it is asked
\* for three distinct survivors out of fewer than three
CreateNextGenerationOptimized ==
    /\ ga_pc = "breed"
    /\ ga_kind # "base"
    /\ gen < num_generations - 1
    /\ LET ns == Renumbered(nets, survivors)
           num_offspring == population_size - Len(survivors)
       IN IF num_offspring > 0 /\ Len(survivors) < 3
          THEN /\ nets' = ns
               /\ ga_pc' = "raised"
               /\ UNCHANGED <<weights, population, rng, generation, gen>>
          ELSE LET st == Offspring([nets |-> ns, weights |-> weights, pop |-> survivors,
                                    r |-> rng],
                                   survivors, num_offspring)
               IN /\ nets' = st.nets
                  /\ weights' = st.weights
                  /\ population' = st.pop
                  /\ rng' = st.r
                  /\ generation' = generation + 1
                  /\ gen' = gen + 1
                  /\ ga_pc' = "evaluate"
    /\ LoopFrame
    /\ UNCHANGED <<fitness_array, wins_array, games_array, survivors,
                   best_fitness_history, mutation_rate,
                   mutation_strength, checkpoint, games_log>>

\* the last pass of the loop creates no next generation: evolve returns
FinishEvolve ==
    /\ ga_pc = "breed"
    /\ gen >= num_generations - 1
    /\ ga_pc' = "done"
    /\ LoopFrame
    /\ UNCHANGED <<gen, generation, nets, weights, population, fitness_array, wins_array,
                   games_array, survivors, best_fitness_history, mutation_rate,
                   mutation_strength, checkpoint, games_log, rng>>

GANext ==
    \/ InitializePopulation
    \/ EvaluatePopulation
    \/ EvaluatePopulationParallel
    \/ EvaluatePopulationVectorized
    \/ SelectSurvivors
    \/ SelectSurvivorsVectorized
    \/ CreateNextGeneration
    \/ CreateNextGenerationOptimized
    \/ FinishEvolve

GASpec == GAInit /\ [][GANext]_vars

-----------------------------------------------------------------------------
(* Checkpoints of the optimized algorithm *)

\* the loop of load_checkpoint over checkpoint['population_weights']: a new
\* network object per entry, its id taken from the entry and its random
\* parameters left as the constructor drew them: [nets, weights, pop, r]
RECURSIVE LoadNetworksFresh(_, _)
LoadNetworksFresh(st, entries) ==
    IF entries = <<>> THEN st
    ELSE LET made == NewNetwork(st.nets, st.weights, entries[1].network_id, st.r)
             ref == Len(made.nets)
         IN LoadNetworksFresh(
                [nets |-> [made.nets EXCEPT ![ref].fitness = entries[1].fitness,
                                            ![ref].wins = entries[1].wins,
                                            ![ref].games_played = entries[1].games_played],
                 weights |-> made.weights,
                 pop |-> Append(st.pop, ref),
                 r |-> NextRng(st.r)],
                Tail(entries))

\* the loop of load_checkpoint over checkpoint['population_weights']: a new
\* network object per entry, with the entry's id, parameter values (np.array)
\* and tallies: [nets, weights, pop, r]
RECURSIVE LoadNetworks(_, _)
LoadNetworks(st, entries) ==
    IF entries = <<>> THEN st
    ELSE LET made == NewNetwork(st.nets, st.weights, entries[1].network_id, st.r)
             ref == Len(made.nets)
         IN LoadNetworks(
                [nets |-> [made.nets EXCEPT ![ref].fitness = entries[1].fitness,
                                            ![ref].wins = entries[1].wins,
                                            ![ref].games_played = entries[1].games_played],
                 weights |-> [made.weights EXCEPT ![made.nets[ref].w] = entries[1].w],
                 pop |-> Append(st.pop, ref),
                 r |-> NextRng(st.r)],
                Tail(entries))

\* a GeneticAlgorithmOptimized is constructed and evolve_parallel is about to
\* start with the parallel evaluation
CheckpointInit ==
    /\ GAInit
    /\ ga_kind = "parallel"

\* save_checkpoint(): called by evolve_parallel after the selection, or by the
\* caller of evolve_parallel once it has returned or raised
SaveCheckpoint ==
    /\ ga_pc \in {"breed", "done", "raised"}
    /\ checkpoint' = <<save_checkpoint(generation, population_size, top_k, mutation_rate,
                                       mutation_strength, best_fitness_history, nets,
                                       weights, population)>>
    /\ checkpoint' # checkpoint
    /\ UNCHANGED <<gameVars, tournamentVars, fitnessVars, progressVars, ga_kind, population_size, top_k,
                   games_per_matchup, num_generations, gen, generation, nets, weights,
                   population, fitness_array, wins_array, games_array, survivors,
                   best_fitness_history, mutation_rate, mutation_strength, games_log, ga_pc>>

\* load_checkpoint(filename) on the file that save_checkpoint wrote, once
\* evolve_parallel has returned or raised
LoadCheckpoint ==
    /\ ga_pc \in {"done", "raised"}
    /\ checkpoint # <<>>
    /\ generation' = checkpoint[1].generation
    /\ population_size' = checkpoint[1].population_size
    /\ top_k' = checkpoint[1].top_k
    /\ mutation_rate' = checkpoint[1].mutation_rate
    /\ mutation_strength' = checkpoint[1].mutation_strength
    /\ best_fitness_history' = checkpoint[1].best_fitness_history
    /\ LET st == LoadNetworks([nets |-> nets, weights |-> weights, pop |-> <<>>, r |-> rng],
                              checkpoint[1].population_weights)
       IN /\ nets' = st.nets
          /\ weights' = st.weights
          /\ population' = st.pop
          /\ rng' = st.r
    /\ ga_pc' = "loaded"
    /\ UNCHANGED <<engine, deck, discard_pile, players, current_player, game_over, winner,
                   hand_arrays, hand_sizes, turn_count, pc, policy, turn_phase, agents>>
    /\ UNCHANGED <<ga_kind, games_per_matchup, num_generations, gen, fitness_array,
                   wins_array, games_array, survivors, checkpoint, games_log,
                   tournamentVars, fitnessVars, progressVars>>

CheckpointNext ==
    \/ InitializePopulation
    \/ EvaluatePopulationParallel
    \/ SelectSurvivorsVectorized
    \/ CreateNextGenerationOptimized
    \/ FinishEvolve
    \/ SaveCheckpoint
    \/ LoadCheckpoint

CheckpointSpec == CheckpointInit /\ [][CheckpointNext]_vars

\* evolve_parallel(num_generations, games_per_matchup) is called again on the
\* algorithm that load_checkpoint has filled: its loop starts with gen = 0 and
\* evaluates self.population
EvolveParallelResumed ==
    /\ ga_pc = "loaded"
    /\ Len(nets) <= MaxResumedNets
    /\ gen' = 0
    /\ ga_pc' = "evaluate"
    /\ LoopFrame
    /\ UNCHANGED <<generation, nets, weights, population, fitness_array, wins_array,
                   games_array, survivors, best_fitness_history, mutation_rate,
                   mutation_strength, checkpoint, games_log, rng>>

ResumeNext ==
    \/ InitializePopulation
    \/ EvaluatePopulationParallel
    \/ SelectSurvivorsVectorized
    \/ CreateNextGenerationOptimized
    \/ FinishEvolve
    \/ SaveCheckpoint
    \/ LoadCheckpoint
    \/ EvolveParallelResumed

ResumeSpec == CheckpointInit /\ [][ResumeNext]_vars

-----------------------------------------------------------------------------
(* The adaptation of the mutation parameters, generation after generation *)

\* the best fitnesses that a generation may have: no win at all, and two close
\* win ratios
FitnessSamples == {<<0, 1>>, <<12, 25>>, <<13, 25>>}

\* the mutation_rate and mutation_strength given to the constructor
RateSamples == {MinRate, DefaultRate, MaxRate}

\* GeneticAlgorithmOptimized(mutation_rate, mutation_strength) is constructed
AdaptInit ==
    /\ FitnessIdle
    /\ HofIdle
    /\ ProgressIdle
    /\ GameIdle
    /\ TournamentIdle
    /\ rng = SeedRng(1)
    /\ ga_kind = "vectorized"
    /\ population_size = 0
    /\ top_k = 0
    /\ games_per_matchup = 0
    /\ num_generations = 0
    /\ gen = 0
    /\ generation = 0
    /\ nets = <<>>
    /\ weights = <<>>
    /\ population = <<>>
    /\ fitness_array = <<>>
    /\ wins_array = <<>>
    /\ games_array = <<>>
    /\ survivors = <<>>
    /\ best_fitness_history = <<>>
    /\ mutation_rate \in RateSamples
    /\ mutation_strength \in RateSamples
    /\ checkpoint = <<>>
    /\ games_log = <<>>
    /\ ga_pc = "adapt"

\* a generation of evolve_parallel as far as the mutation parameters go:
\* best_fitness_history.append(survivors[0].fitness), adaptive_mutation_rate()
AdaptiveMutationRate ==
    /\ ga_pc = "adapt"
    /\ Len(best_fitness_history) < MaxHistory
    /\ \E f \in FitnessSamples :
          LET history == Append(best_fitness_history, f)
          IN /\ best_fitness_history' = history
             /\ mutation_rate' = adaptive_mutation_rate(history, mutation_rate)
             /\ mutation_strength' = adaptive_mutation_rate(history, mutation_strength)
    /\ UNCHANGED <<gameVars, tournamentVars, fitnessVars, progressVars, ga_kind, population_size, top_k,
                   games_per_matchup, num_generations, gen, generation, nets, weights,
                   population,
                   fitness_array, wins_array, games_array, survivors, checkpoint, games_log,
                   ga_pc>>

AdaptSpec == AdaptInit /\ [][AdaptiveMutationRate]_vars

\* the constructor takes any mutation_rate and mutation_strength: 0.01 and 0.5
\* lie outside the interval that adaptive_mutation_rate clamps to
AnyRateSamples == {MinRate \div 5, DefaultRate, MaxRate + 2000}

\* GeneticAlgorithmOptimized(mutation_rate, mutation_strength) is constructed
\* with any positive parameters
AdaptAnyInit ==
    /\ FitnessIdle
    /\ HofIdle
    /\ ProgressIdle
    /\ GameIdle
    /\ TournamentIdle
    /\ rng = SeedRng(1)
    /\ ga_kind = "vectorized"
    /\ population_size = 0
    /\ top_k = 0
    /\ games_per_matchup = 0
    /\ num_generations = 0
    /\ gen = 0
    /\ generation = 0
    /\ nets = <<>>
    /\ weights = <<>>
    /\ population = <<>>
    /\ fitness_array = <<>>
    /\ wins_array = <<>>
    /\ games_array = <<>>
    /\ survivors = <<>>
    /\ best_fitness_history = <<>>
    /\ mutation_rate \in AnyRateSamples
    /\ mutation_strength \in AnyRateSamples
    /\ checkpoint = <<>>
    /\ games_log = <<>>
    /\ ga_pc = "adapt"

AdaptAnySpec == AdaptAnyInit /\ [][AdaptiveMutationRate]_vars

-----------------------------------------------------------------------------
(* get_game_state: what an agent is shown *)

\* opponent_cards: the others' numbers of cards in seat order, padded with 0 to
\* three values and cut to three
OpponentCards(counts, player_idx) ==
    LET others == SortByKey({<<i, counts[i + 1]>> : i \in (0 .. Len(counts) - 1) \ {player_idx}})
        padded == others \o <<0, 0, 0>>
    IN SubSeq(padded, 1, 3)

\* an observation that shows the values of the opponents' hands
get_game_state_values(eng, ps, arrays, sizes, dk, pile, player_idx) ==
    [hand |-> ps[player_idx + 1].hand,
     hand_value |-> EngineHandValue(eng, ps, arrays, sizes, player_idx),
     deck_size |-> Len(dk),
     opponent_cards |-> OpponentCards([i \in 1 .. Len(ps) |-> get_hand_value(ps[i].hand)],
                                      player_idx),
     last_discard |-> IF pile # <<>> THEN Last(pile) ELSE None]

\* get_game_state(player_idx) on the engine's state
get_game_state(eng, ps, arrays, sizes, dk, pile, player_idx) ==
    [hand |-> ps[player_idx + 1].hand,
     hand_value |-> EngineHandValue(eng, ps, arrays, sizes, player_idx),
     deck_size |-> Len(dk),
     opponent_cards |-> OpponentCards(IF eng = "list"
                                      THEN [i \in 1 .. Len(ps) |-> Len(ps[i].hand)]
                                      ELSE sizes,
                                      player_idx),
     last_discard |-> IF pile # <<>> THEN Last(pile) ELSE None]

-----------------------------------------------------------------------------
(* The agents: get_action and select_action *)

\* the positions of legal_actions that have a network output:
\* for i, action in enumerate(legal_actions): if i < len(probabilities)
ActionIndices(legal_actions) == {i \in 0 .. Len(legal_actions) - 1 : i < OutputSize}

\* a choice among all the network's outputs, whether or not a legal action
\* stands at the chosen position
get_action_any_output(legal_actions, r) ==
    LET chosen_index == r % OutputSize
    IN IF chosen_index < Len(legal_actions) THEN legal_actions[chosen_index + 1]
       ELSE [type |-> "none", cards |-> <<>>, draw_from |-> "none"]

\* get_action(game_state, legal_actions): np.random.choice over the legal
\* actions that have an output, the draw being fixed by r; random.choice over
\* all of them when none has
get_action(legal_actions, r) ==
    LET indices == ActionIndices(legal_actions)
    IN IF indices # {}
       THEN LET chosen_index == CHOOSE i \in indices :
                                   Cardinality({j \in indices : j < i}) = r % Cardinality(indices)
            IN legal_actions[chosen_index + 1]
       ELSE legal_actions[(r % Len(legal_actions)) + 1]

\* EnhancedNetworkWrapper.select_action(game_state, legal_actions)
select_action(legal_actions, r) ==
    IF legal_actions = <<>> THEN None
    ELSE LET legal_indices == SortByKey({<<i, i>> : i \in ActionIndices(legal_actions)})
         IN IF legal_indices = <<>>
            THEN legal_actions[(r % Len(legal_actions)) + 1]
            ELSE legal_actions[legal_indices[(r % Len(legal_indices)) + 1] + 1]

-----------------------------------------------------------------------------
(* The learning simulator: GameState and YanivSimulator.play_game *)
(* (true_learning_ai.py); its state is kept in the variables of the rule   *)
(* engine: hands and scores in players, turn in turn_count, engine =       *)
(* "simulator"                                                             *)

\* 'rank' and 'value' of a card of GameState.create_deck: face cards count 10
SimRank(c) == (c % 13) + 1

SimValue(c) == IF SimRank(c) < 10 THEN SimRank(c) ELSE 10

\* GameState.create_deck before the shuffle: 52 cards, no joker
SimCreateDeck == [i \in 1 .. 52 |-> i - 1]

\* GameState.get_hand_value
SimHandValue(hand) == SumSeq([i \in 1 .. Len(hand) |-> SimValue(hand[i])])

\* the hand of a player after deal_initial_hands: the cards are dealt one at a
\* time, in turn, from the end of the deck d
SimDealHand(d, player) == [k \in 1 .. HandSize |-> d[Len(d) - (2 * (k - 1) + player)]]

\* the positions of the cards of suit s in the hand, by (rank, position)
SimSuitCards(hand, s) ==
    SortByKey({<<SimRank(hand[i]) * 10 + i, i - 1>> : i \in {j \in DOMAIN hand : SuitIdx(hand[j]) = s}})

\* the length of the chain of consecutive ranks that the run-building loop
\* collects from position start of suit_cards
RECURSIVE SimChain(_, _, _)
SimChain(hand, sc, start) ==
    IF start < Len(sc) /\ SimRank(hand[sc[start + 1] + 1]) = SimRank(hand[sc[start] + 1]) + 1
    THEN 1 + SimChain(hand, sc, start + 1)
    ELSE 1

\* hand[i]['value'] == hand[j]['value']: what find_valid_discards compares
SimSameValue(hand, i, j) == SimValue(hand[i]) = SimValue(hand[j])

\* GameState.find_valid_discards(player): the lists of hand positions, in the
\* order in which the loops append them
find_valid_discards(hand) ==
    LET n == Len(hand)
        singles == [i \in 1 .. n |-> <<i - 1>>]
        pairs == SortByKey({<<x[1] * 10 + x[2], <<x[1] - 1, x[2] - 1>>>> :
                     x \in {y \in (1 .. n) \X (1 .. n) :
                               y[1] < y[2] /\ SimSameValue(hand, y[1], y[2])}})
        group(i) == {j \in 1 .. n : SimSameValue(hand, i, j)}
        firsts == {i \in 1 .. n : \A j \in group(i) : i <= j}
        sets == SortByKey({<<i, SortByKey({<<j, j - 1>> : j \in group(i)})>> :
                    i \in {k \in firsts : Cardinality(group(k)) >= 3}})
        suitFirst(s) == CHOOSE i \in 1 .. n :
                            /\ SuitIdx(hand[i]) = s
                            /\ \A j \in 1 .. i - 1 : SuitIdx(hand[j]) # s
        suits == {s \in 0 .. 3 : Cardinality({i \in 1 .. n : SuitIdx(hand[i]) = s}) >= 3}
        runs == SortByKey({<<suitFirst(x[1]) * 100 + x[2] * 10 + x[3],
                             SubSeq(SimSuitCards(hand, x[1]), x[2], x[2] + x[3] - 1)>> :
                    x \in {y \in suits \X (1 .. n) \X (3 .. n) :
                              /\ y[2] <= Len(SimSuitCards(hand, y[1])) - 2
                              /\ y[3] <= SimChain(hand, SimSuitCards(hand, y[1]), y[2])}})
    IN singles \o pairs \o sets \o runs

\* the valid_actions of the draw phase
SimDrawActions(dk, pile) ==
    (IF dk # <<>> THEN <<"deck">> ELSE <<>>) \o (IF pile # <<>> THEN <<"discard">> ELSE <<>>)

\* the points that the cards at the positions idx of the hand are worth
SimDiscardedValue(hand, idx) == SumSeq([k \in 1 .. Len(idx) |-> SimValue(hand[idx[k] + 1])])

\* the discard that agent.choose_action returns when it does not call: one of
\* valid_discards, picked by the generator's value r ("random") or the first of
\* those that shed the most points ("greedy")
SimDiscardChoice(hand, r, pol) ==
    LET acts == find_valid_discards(hand)
    IN IF pol = "greedy"
       THEN acts[CHOOSE k \in DOMAIN acts :
                    /\ \A j \in DOMAIN acts :
                          SimDiscardedValue(hand, acts[j]) <= SimDiscardedValue(hand, acts[k])
                    /\ \A j \in 1 .. k - 1 :
                          SimDiscardedValue(hand, acts[j]) < SimDiscardedValue(hand, acts[k])]
       ELSE acts[(r % Len(acts)) + 1]

\* a turn after which the same player is to move again
SimNextPlayerSame(player) == player

\* game.current_player = 1 - player
SimNextPlayer(player) == 1 - player

\* the condition of the simulator's while loop
SimLoopCondition == ~game_over /\ turn_count < SimMaxTurns

\* before YanivSimulator.play_game(agent1, agent2) is called
SimInit ==
    /\ FitnessIdle
    /\ HofIdle
    /\ ProgressIdle
    /\ GAIdle
    /\ TournamentIdle
    /\ engine = "simulator"
    /\ policy \in Policies
    /\ rng \in {SeedRng(seed) : seed \in 1 .. NumSeeds}
    /\ deck = <<>>
    /\ discard_pile = <<>>
    /\ players = <<>>
    /\ current_player = 0
    /\ game_over = FALSE
    /\ winner = None
    /\ hand_arrays = <<>>
    /\ hand_sizes = <<>>
    /\ turn_count = 0
    /\ turn_phase = "none"
    /\ agents = <<[games_played |-> 0, wins |-> 0], [games_played |-> 0, wins |-> 0]>>
    /\ pc = "new"

\* what the simulator never touches
SimFrame == UNCHANGED <<engine, policy, hand_arrays, hand_sizes, gaVars, tournamentVars, fitnessVars, progressVars>>

\* game = GameState(); game.deal_initial_hands()
SimDeal ==
    /\ pc = "new"
    /\ LET d == Shuffle(SimCreateDeck, rng)
       IN /\ players' = [i \in 1 .. 2 |-> [hand |-> SimDealHand(d, i - 1), score |-> 0]]
          /\ discard_pile' = <<d[Len(d) - 2 * HandSize]>>
          /\ deck' = SubSeq(d, 1, Len(d) - 2 * HandSize - 1)
    /\ current_player' = 0
    /\ turn_phase' = "draw"
    /\ game_over' = FALSE
    /\ winner' = None
    /\ turn_count' = 0
    /\ rng' = NextRng(rng)
    /\ pc' = "loop"
    /\ UNCHANGED agents
    /\ SimFrame

\* a pass of the loop in the draw phase: the agent draws from the deck or from
\* the discard pile (from nowhere when both are empty)
SimDraw ==
    /\ pc = "loop"
    /\ SimLoopCondition
    /\ turn_phase = "draw"
    /\ LET valid_actions == SimDrawActions(deck, discard_pile)
           player == current_player
       IN IF valid_actions = <<>>
          THEN UNCHANGED <<deck, discard_pile, players>>
          ELSE LET source == valid_actions[(rng % Len(valid_actions)) + 1]
               IN IF source = "deck"
                  THEN /\ players' = [players EXCEPT ![player + 1].hand = Append(@, Last(deck))]
                       /\ deck' = Front(deck)
                       /\ UNCHANGED discard_pile
                  ELSE /\ players' = [players EXCEPT ![player + 1].hand =
                                                         Append(@, Last(discard_pile))]
                       /\ discard_pile' = Front(discard_pile)
                       /\ UNCHANGED deck
    /\ turn_phase' = "discard"
    /\ rng' = NextRng(rng)
    /\ UNCHANGED <<current_player, game_over, winner, turn_count, agents, pc>>
    /\ SimFrame

\* a pass of the loop in the discard phase in which the agent discards
SimDiscard ==
    /\ pc = "loop"
    /\ SimLoopCondition
    /\ turn_phase = "discard"
    /\ LET player == current_player
           hand == players[player + 1].hand
           popped == PopCards(hand, SortedReverse(SimDiscardChoice(hand, rng, policy)), <<>>)
       IN /\ find_valid_discards(hand) # <<>>
          /\ players' = [players EXCEPT ![player + 1].hand = popped.hand]
          /\ discard_pile' = discard_pile \o popped.discarded
          /\ game_over' = (popped.hand = <<>>)
          /\ winner' = IF popped.hand = <<>> THEN player ELSE winner
    /\ current_player' = SimNextPlayer(current_player)
    /\ turn_phase' = "draw"
    /\ turn_count' = turn_count + 1
    /\ rng' = NextRng(rng)
    /\ UNCHANGED <<deck, agents, pc>>
    /\ SimFrame

\* a pass of the loop in the discard phase in which the agent, its hand worth
\* at most 7, calls Yaniv
SimYaniv ==
    /\ pc = "loop"
    /\ SimLoopCondition
    /\ turn_phase = "discard"
    /\ LET player == current_player
           hand_value == SimHandValue(players[player + 1].hand)
           opp_value == SimHandValue(players[(1 - player) + 1].hand)
       IN /\ hand_value <= YanivThreshold
          /\ IF hand_value <= opp_value
             THEN /\ winner' = player
                  /\ UNCHANGED players
             ELSE /\ players' = [players EXCEPT ![player + 1].score = @ + AssafPenalty]
                  /\ winner' = 1 - player
    /\ game_over' = TRUE
    /\ current_player' = SimNextPlayer(current_player)
    /\ turn_phase' = "draw"
    /\ turn_count' = turn_count + 1
    /\ rng' = NextRng(rng)
    /\ UNCHANGED <<deck, discard_pile, agents, pc>>
    /\ SimFrame

\* the loop is left: with a winner, the game is counted for both agents and the
\* win for the winner; play_game returns game.winner
SimFinish ==
    /\ pc = "loop"
    /\ ~SimLoopCondition
    /\ agents' = IF winner # None
                 THEN [i \in 1 .. 2 |->
                         [games_played |-> agents[i].games_played + 1,
                          wins |-> agents[i].wins + (IF winner = i - 1 THEN 1 ELSE 0)]]
                 ELSE agents
    /\ pc' = "done"
    /\ UNCHANGED <<deck, discard_pile, players, current_player, game_over, winner,
                   turn_count, turn_phase, rng>>
    /\ SimFrame

SimNext == SimDeal \/ SimDraw \/ SimDiscard \/ SimYaniv \/ SimFinish

SimSpec == SimInit /\ [][SimNext]_vars

\* ---------------------------------------------------------------------------
\* AdaptiveGeneticAlgorithm.evaluate_fitness (genetic_algorithm_enhanced.py)
\* ---------------------------------------------------------------------------

\* the winners SimpleYanivGame.play_game can return: the index of a seat
SimpleWinners == {0, 1}

\* play_simple_match(network1, network2): two games; network1 sits first in game 0
\* and second in game 1, and a game won from its seat adds one win
play_simple_match(winners) ==
    (IF winners[1] = 0 THEN 1 ELSE 0) + (IF winners[2] = 1 THEN 1 ELSE 0)

\* the winners of the games of one _play_matches call: one pair per pass
MatchOutcomes(num_games) == [1 .. num_games -> [1 .. 2 -> SimpleWinners]]

\* _play_matches(network1, network2, num_games): every pass of the loop adds the
\* wins of one play_simple_match
RECURSIVE play_matches(_, _)
play_matches(outcomes, num_games) ==
    IF num_games = 0 THEN 0
    ELSE play_matches(outcomes, num_games - 1) + play_simple_match(outcomes[num_games])

\* np.random.choice(others, size = min(5, population_size - 1), replace = False)
OpponentChoices(size, idx) ==
    LET others == (0 .. size - 1) \ {idx}
        k == IF size - 1 < 5 THEN size - 1 ELSE 5
    IN  {s \in [1 .. k -> others] : \A i, j \in 1 .. k : i # j => s[i] # s[j]}

\* HallOfFame.get_opponents(n): the number of networks it returns, for n >= 2
get_opponents(champs, n) == IF champs <= n THEN champs ELSE 1 + (n - 1)

\* base_fitness as evaluate_fitness returns it: the win rate, plus
\* 0.1 * (1 - np.std([rate])) = 0.1 from ten games on
BaseFitness(wins, games) ==
    LET rate == IF games > 0 THEN <<wins, games>> ELSE <<0, 1>>
    IN  IF games >= 10 THEN <<10 * rate[1] + rate[2], 10 * rate[2]>> ELSE rate

\* an AdaptiveGeneticAlgorithm is constructed, its hall of fame holds some
\* champions, and evaluate_fitness(individual_idx) is about to be called
FitnessInit ==
    /\ ProgressIdle
    /\ HofIdle
    /\ GameIdle
    /\ rng = SeedRng(1)
    /\ TournamentIdle
    /\ ga_kind = "adaptive"
    /\ population_size \in 1 .. MaxPop
    /\ top_k = 0
    /\ games_per_matchup = 0
    /\ num_generations = 0
    /\ gen = 0
    /\ generation = 0
    /\ nets = <<>>
    /\ weights = <<>>
    /\ population = <<>>
    /\ fitness_array = <<>>
    /\ wins_array = <<>>
    /\ games_array = <<>>
    /\ survivors = <<>>
    /\ best_fitness_history = <<>>
    /\ mutation_rate = DefaultRate
    /\ mutation_strength = DefaultRate
    /\ checkpoint = <<>>
    /\ games_log = <<>>
    /\ ga_pc = "idle"
    /\ individual_idx \in 0 .. population_size - 1
    /\ include_hall_of_fame \in BOOLEAN
    /\ champions \in 0 .. MaxChampions
    /\ opponents_idx = <<>>
    /\ hof_opponents = 0
    /\ total_wins = 0
    /\ games_played = 0
    /\ base_fitness = <<>>
    /\ f_pc = "new"

FitnessFrame ==
    UNCHANGED <<gameVars, gaVars, tournamentVars, progressVars, hofVars, individual_idx,
                include_hall_of_fame, champions>>

\* evaluate_fitness up to its first loop: the counters start at 0 and the
\* opponents are drawn
EvaluateFitness ==
    /\ f_pc = "new"
    /\ opponents_idx' \in OpponentChoices(population_size, individual_idx)
    /\ total_wins' = 0
    /\ games_played' = 0
    /\ f_pc' = "population"
    /\ UNCHANGED <<hof_opponents, base_fitness>>
    /\ FitnessFrame

\* a pass of `for opp_idx in opponents_idx`
PlayPopulationMatches ==
    /\ f_pc = "population"
    /\ opponents_idx # <<>>
    /\ \E outcomes \in MatchOutcomes(2) :
           total_wins' = total_wins + play_matches(outcomes, 2)
    /\ games_played' = games_played + 2
    /\ opponents_idx' = Tail(opponents_idx)
    /\ UNCHANGED <<hof_opponents, base_fitness, f_pc>>
    /\ FitnessFrame

\* after the first loop: `if include_hall_of_fame and len(champions) > 0`
EnterHallOfFame ==
    /\ f_pc = "population"
    /\ opponents_idx = <<>>
    /\ IF include_hall_of_fame /\ champions > 0
       THEN /\ hof_opponents' = get_opponents(champions, 3)
            /\ f_pc' = "hall_of_fame"
       ELSE /\ hof_opponents' = 0
            /\ f_pc' = "bonus"
    /\ UNCHANGED <<opponents_idx, total_wins, games_played, base_fitness>>
    /\ FitnessFrame

\* a pass of `for hof_opponent in hof_opponents`
PlayHallOfFameMatches ==
    /\ f_pc = "hall_of_fame"
    /\ hof_opponents > 0
    /\ \E outcomes \in MatchOutcomes(2) :
           total_wins' = total_wins + play_matches(outcomes, 2)
    /\ games_played' = games_played + 2
    /\ hof_opponents' = hof_opponents - 1
    /\ f_pc' = IF hof_opponents' = 0 THEN "bonus" ELSE "hall_of_fame"
    /\ UNCHANGED <<opponents_idx, base_fitness>>
    /\ FitnessFrame

\* the end of evaluate_fitness: base_fitness is computed and returned
ReturnFitness ==
    /\ f_pc = "bonus"
    /\ base_fitness' = <<BaseFitness(total_wins, games_played)>>
    /\ f_pc' = "returned"
    /\ UNCHANGED <<opponents_idx, hof_opponents, total_wins, games_played>>
    /\ FitnessFrame

FitnessNext ==
    \/ EvaluateFitness
    \/ PlayPopulationMatches
    \/ EnterHallOfFame
    \/ PlayHallOfFameMatches
    \/ ReturnFitness

FitnessSpec == FitnessInit /\ [][FitnessNext]_vars

-----------------------------------------------------------------------------
(* HallOfFame *)

\* the fitness values a champion is entered with
HofFitnessSamples == {1, 2, 3}

\* the values of n that get_opponents is called with
OpponentCounts == 1 .. MaxChampions + 1

\* the values of top_n that create_ensemble is called with
EnsembleSizes == 1 .. 7

\* the hall of fame is followed for this many calls of update
MaxHofUpdates == 5

\* HallOfFame.update(network, fitness, generation = g): the champion is appended,
\* the list sorted by fitness with reverse=True (a stable sort: the new champion
\* comes after the champions at least as fit) and cut to self.size
HallOfFame_update(hof, network, fitness, g) ==
    LET champion_data == [network |-> network, fitness |-> fitness, generation |-> g]
        before == SelectSeq(hof.champions, LAMBDA c : c.fitness >= fitness)
        after == SelectSeq(hof.champions, LAMBDA c : c.fitness < fitness)
        sorted == before \o <<champion_data>> \o after
    IN [hof EXCEPT !.champions =
            SubSeq(sorted, 1, IF Len(sorted) < hof.size THEN Len(sorted) ELSE hof.size)]

\* HallOfFame.get_opponents(n): all the champions when there are at most n of
\* them; otherwise the best and n - 1 more at a spacing of
\* len(self.champions) // (n - 1), which raises ZeroDivisionError for n = 1
HallOfFame_get_opponents(hof, n) ==
    LET len == Len(hof.champions)
    IN IF len <= n
       THEN [n |-> n, raised |-> FALSE,
             selected |-> [i \in 1 .. len |-> hof.champions[i].network]]
       ELSE IF n = 1
       THEN [n |-> n, raised |-> TRUE, selected |-> <<hof.champions[1].network>>]
       ELSE [n |-> n, raised |-> FALSE,
             selected |->
                <<hof.champions[1].network>> \o
                [i \in 1 .. n - 1 |->
                    LET step == len \div (n - 1)
                        idx == IF i * step < len - 1 THEN i * step ELSE len - 1
                    IN hof.champions[idx + 1].network]]

\* a HallOfFame(size) is constructed
HofInit ==
    /\ GAIdle
    /\ TournamentIdle
    /\ GameIdle
    /\ rng = SeedRng(1)
    /\ FitnessIdle
    /\ ProgressIdle
    /\ hall_of_fame \in {[size |-> s, champions |-> <<>>] : s \in 1 .. MaxChampions}
    /\ hof_updates = 0
    /\ hof_result = [n |-> 0, raised |-> FALSE, selected |-> <<>>]
    /\ h_pc = "ready"

HofFrame ==
    UNCHANGED <<gameVars, gaVars, tournamentVars, progressVars, individual_idx,
                include_hall_of_fame, champions, opponents_idx, hof_opponents, total_wins,
                games_played, base_fitness, f_pc>>

\* evolve_generation's call of update with the best network of the generation,
\* an object of that generation's population
HofUpdate ==
    /\ h_pc = "ready"
    /\ hof_updates < MaxHofUpdates
    /\ \E fitness \in HofFitnessSamples :
           hall_of_fame' = HallOfFame_update(hall_of_fame, hof_updates + 1, fitness,
                                             hof_updates + 1)
    /\ hof_updates' = hof_updates + 1
    /\ UNCHANGED <<hof_result, h_pc>>
    /\ HofFrame

\* a call of get_opponents(n)
HofGetOpponents ==
    /\ h_pc = "ready"
    /\ \E n \in OpponentCounts : hof_result' = HallOfFame_get_opponents(hall_of_fame, n)
    /\ h_pc' = IF hof_result'.raised THEN "raised" ELSE "returned"
    /\ UNCHANGED <<hall_of_fame, hof_updates>>
    /\ HofFrame

\* create_ensemble(top_n): `if len(self.hall_of_fame.champions) > 0:` and the
\* call of get_opponents(n=min(3, top_n // 2))
HofCreateEnsemble ==
    /\ h_pc = "ready"
    /\ Len(hall_of_fame.champions) > 0
    /\ \E top_n \in EnsembleSizes :
           hof_result' = HallOfFame_get_opponents(hall_of_fame,
                            IF top_n \div 2 < 3 THEN top_n \div 2 ELSE 3)
    /\ h_pc' = IF hof_result'.raised THEN "raised" ELSE "returned"
    /\ UNCHANGED <<hall_of_fame, hof_updates>>
    /\ HofFrame

\* the caller goes on after the call
HofReturn ==
    /\ h_pc \in {"returned", "raised"}
    /\ h_pc' = "ready"
    /\ UNCHANGED <<hall_of_fame, hof_updates, hof_result>>
    /\ HofFrame

HofNext == HofUpdate \/ HofGetOpponents \/ HofCreateEnsemble \/ HofReturn

HofSpec == HofInit /\ [][HofNext]_vars

-----------------------------------------------------------------------------
(* Properties of the rule engine *)

RECURSIVE Flatten(_)
Flatten(ss) == IF ss = <<>> THEN <<>> ELSE ss[1] \o Flatten(Tail(ss))

\* every card that is in the deck, on the discard pile or in a hand
AllCards == deck \o discard_pile \o Flatten([i \in 1 .. Len(players) |-> players[i].hand])

\* s holds exactly the cards of the deck, each as often as the deck holds it: with
\* 54 cards, every card of the deck among them and two of them jokers, each of the
\* 52 suited cards is there once
IsFullDeck(s) ==
    /\ Len(s) = Len(CreateDeck)
    /\ Range(s) = Range(CreateDeck)
    /\ Cardinality({i \in DOMAIN s : s[i] = Joker}) =
           Cardinality({i \in DOMAIN CreateDeck : CreateDeck[i] = Joker})

ListValues == [i \in 1 .. Len(players) |-> get_hand_value(players[i].hand)]

\* the player whose action ended the game: play_game moved on by one seat
Caller == (current_player + Len(players) - 1) % Len(players)

OthersAllHigher(c) ==
    \A i \in 0 .. Len(players) - 1 : i # c => ListValues[i + 1] > ListValues[c + 1]

\* the network a is ranked before the network b: higher fitness, or the same
\* fitness and the lower id
RankedBefore(a, b) ==
    \/ FLess(b.fitness, a.fitness)
    \/ /\ ~FLess(a.fitness, b.fitness)
       /\ a.network_id < b.network_id

\* C1: once the game is initialised, and after every executed action, the deck, the
\* discard pile and the hands together hold exactly the 54 cards of the deck.
C1_CardsConserved == pc # "new" => IsFullDeck(AllCards)

\* a game of the optimized engine whose deck was refilled from the discard pile:
\* it holds more cards than right after the deal
C1_Witness ==
    /\ pc = "done"
    /\ engine = "optimized"
    /\ Len(deck) > DeckSize - HandSize * Len(players) - 1

\* what play_game has left to do at most: the deal, the turns up to the cap, the end
Variant ==
    IF pc = "new" THEN max_turns + 2
    ELSE IF pc = "loop" THEN max_turns - turn_count + 1
    ELSE 0

\* the guards of play_game's steps: some step can be taken
CanStep ==
    \/ pc = "new"
    \/ pc = "loop" /\ ~LoopCondition
    \/ pc = "loop" /\ LoopCondition
          /\ (CurrentLegal = <<>> \/ NonCalls(CurrentLegal) # <<>> \/ HasCall(CurrentLegal))

\* C2: play_game ends, after max_turns executed actions at most: it never counts
\* more turns than max_turns, it can always take a step until it is done, and
\* every step brings it closer to its end.
C2_Terminates ==
    /\ [](turn_count <= max_turns /\ Variant >= 0 /\ (pc # "done" => CanStep))
    /\ [][Variant' < Variant]_vars

\* a game with agents that never call, stopped by the cap
C2_Witness == pc = "done" /\ ~game_over /\ turn_count = max_turns

\* C3: when a call succeeds (every other hand is worth strictly more), the caller
\* wins, every other score grows by that player's hand value and the caller's
\* score does not change.
C3_CallerScoreUnchanged ==
    [][(pc = "loop" /\ ~game_over /\ game_over' /\ OthersAllHigher(current_player))
       => /\ winner' = current_player
          /\ \A i \in 0 .. Len(players) - 1 :
                players'[i + 1].score =
                    IF i = current_player THEN players[i + 1].score
                    ELSE players[i + 1].score + ListValues[i + 1]]_vars

\* C4: when a call fails (some other hand is worth no more than the caller's), the
\* caller's score grows by 30, no other score changes, the game is over and with
\* two players the opponent is the winner.
C4_Assaf ==
    [][(pc = "loop" /\ ~game_over /\ game_over' /\ ~OthersAllHigher(current_player))
       => /\ \A i \in 0 .. Len(players) - 1 :
                players'[i + 1].score =
                    IF i = current_player THEN players[i + 1].score + 30
                    ELSE players[i + 1].score
          /\ Len(players) = 2 => winner' = 1 - current_player]_vars

\* a two-player game ended by a call against a hand of the same value
C4_Witness ==
    /\ game_over
    /\ Len(players) = 2
    /\ ListValues[1] = ListValues[2]
    /\ players[Caller + 1].score = 30
    /\ winner = 1 - Caller

\* C5: the legal actions of a player hold call_yaniv exactly when the hand is
\* worth 7 or less.
C5_CallIffLow ==
    pc \in {"loop", "done"} =>
        \A p \in 0 .. Len(players) - 1 :
            LET legal == get_legal_actions(engine, players, hand_arrays, hand_sizes, p)
            IN (\E k \in DOMAIN legal : legal[k].type = "call_yaniv")
               <=> get_hand_value(players[p + 1].hand) <= 7

\* the optimized engine with a hand of exactly 7, a hand of 8 and a hand that shrank
C5_Witness ==
    /\ pc = "loop"
    /\ engine = "optimized"
    /\ \E p, q, r \in 0 .. Len(players) - 1 :
        /\ ListValues[p + 1] = 7
        /\ ListValues[q + 1] = 8
        /\ Len(players[r + 1].hand) < HandSize

\* C10: an action that is not among the legal actions is refused with an error, and
\* hands, deck, discard pile and scores stay as they were.
C10_IllegalRefused ==
    [][(pc = "loop" /\ pc' \in {"executed", "raised"})
       => (pc' = "raised" /\ UNCHANGED <<players, deck, discard_pile>>)]_vars

-----------------------------------------------------------------------------
(* Properties of the tournament and of the genetic algorithms *)

\* C7: the tallies of a parallel tournament do not depend on the order in which
\* the workers' results are merged: whatever the completion order, results_dict
\* is, for every network, the sum of the wins and of the games of the matchups
\* merged so far, and at the return it is that sum over all matchups (no update
\* is lost).
C7_OrderIndependent ==
    t_pc \in {"running", "returned"} =>
        /\ results_dict = TalliesOf(nets, population, Tasks(Len(population)) \ pending,
                                    games_per_matchup, rng)
        /\ completed_games = games_per_matchup * Cardinality(Tasks(Len(population)) \ pending)
        /\ t_pc = "returned" =>
              /\ pending = {}
              /\ SumFun([i \in DOMAIN results_dict |-> results_dict[i][2]])
                     = 2 * completed_games
              /\ SumFun([i \in DOMAIN results_dict |-> results_dict[i][1]])
                     = completed_games

\* a tournament of four networks with two games per matchup has returned, and
\* not every network has the same number of wins
C7_Witness ==
    /\ t_pc = "returned"
    /\ Len(population) = 4
    /\ games_per_matchup = 2
    /\ completed_matchups = 6
    /\ \E i, j \in DOMAIN results_dict : results_dict[i][1] # results_dict[j][1]

\* C6: a round-robin evaluation (evaluate_population, evaluate_population_parallel)
\* of n >= 2 networks with g games per matchup plays every unordered pair of
\* distinct networks exactly once for exactly g games, n(n-1)/2 * g games in
\* total; after it, in every generation, every network has games_played =
\* (n-1) * g and the wins of all networks add up to the number of games.
C6_RoundRobin ==
    (ga_pc = "select" /\ ga_kind \in {"base", "parallel"} /\ Len(population) >= 2) =>
        LET n == Len(population)
            g == games_per_matchup
            total == ((n * (n - 1)) \div 2) * g
        IN /\ DOMAIN games_log = {t \in (0 .. n - 1) \X (0 .. n - 1) : t[1] < t[2]}
           /\ \A t \in DOMAIN games_log : games_log[t] = g
           /\ SumFun(games_log) = total
           /\ \A i \in 1 .. n : nets[population[i]].games_played = (n - 1) * g
           /\ SumFun([i \in 1 .. n |-> nets[population[i]].wins]) = total
           /\ \A i \in 1 .. n :
                 nets[population[i]].fitness
                     = <<nets[population[i]].wins, nets[population[i]].games_played>>

\* the second generation of four networks, some of them offspring, has been
\* evaluated by the parallel tournament with two games per matchup
C6_Witness ==
    /\ ga_pc = "select"
    /\ ga_kind = "parallel"
    /\ generation = 1
    /\ Len(population) = 4
    /\ games_per_matchup = 2
    /\ \E i \in 1 .. 4 : population[i] > 4
    /\ \E i, j \in 1 .. 4 : nets[population[i]].wins # nets[population[j]].wins

\* C8: whenever 1 <= top_k <= population_size, creating the next generation from
\* the selected survivors succeeds and yields exactly population_size networks,
\* among them the top_k survivors with the parameters they had before breeding.
C8_NextGeneration ==
    [][(ga_pc = "breed" /\ gen < num_generations - 1) =>
          /\ ga_pc' = "evaluate"
          /\ Len(population') = population_size
          /\ \A i \in 1 .. top_k :
                /\ population'[i] = survivors[i]
                /\ weights'[nets'[survivors[i]].w] = weights[nets[survivors[i]].w]]_vars

\* C9: in every generation of evolve_parallel, with the parallel as with the
\* vectorized evaluation, the survivors are the top_k networks by the fitness
\* that the evaluation just computed: no network left out has a strictly
\* greater fitness than a survivor, and survivors[0] has the maximum fitness.
C9_SurvivorsAreTopK ==
    (ga_pc = "breed" /\ ga_kind \in {"parallel", "vectorized"}) =>
        /\ Len(survivors) = top_k
        /\ \A s \in Range(survivors) : \A u \in Range(population) \ Range(survivors) :
              ~FLess(nets[s].fitness, nets[u].fitness)
        /\ \A u \in Range(population) : ~FLess(nets[survivors[1]].fitness, nets[u].fitness)

-----------------------------------------------------------------------------
(* Properties of the observation *)

\* the cards that player p must not see: the deck, the discard pile below its
\* top, the other players' hands
Hidden(p) ==
    deck \o Front(discard_pile)
         \o Flatten([i \in 1 .. Len(players) |-> IF i = p + 1 THEN <<>> ELSE players[i].hand])

\* the state that agrees with the current one on p's hand, on the deck size, on
\* every hand's number of cards and on the top of the discard pile, the hidden
\* cards being laid out in the order pool
Redealt(p, pool) ==
    LET nd == Len(deck)
        np == Len(discard_pile) - 1
        start(i) == nd + np + SumSeq([j \in 1 .. i - 1 |->
                                         IF j = p + 1 THEN 0 ELSE Len(players[j].hand)])
        ps == [i \in 1 .. Len(players) |->
                 IF i = p + 1 THEN players[i]
                 ELSE [players[i] EXCEPT !.hand = SubSeq(pool, start(i) + 1,
                                                         start(i) + Len(players[i].hand))]]
    IN [deck |-> SubSeq(pool, 1, nd),
        discard_pile |-> Append(SubSeq(pool, nd + 1, nd + np), Last(discard_pile)),
        players |-> ps,
        hand_arrays |-> IF engine = "list" THEN hand_arrays
                        ELSE [i \in 1 .. Len(players) |->
                                IF i = p + 1 THEN hand_arrays[i]
                                ELSE UpdateHandArray(hand_arrays[i], ps[i].hand)]]

\* the sequence s turned by k places
Rotated(s, k) == [i \in 1 .. Len(s) |-> s[((i + k - 1) % Len(s)) + 1]]

Observation(p) ==
    get_game_state(engine, players, hand_arrays, hand_sizes, deck, discard_pile, p)

ObservationOf(st, p) ==
    get_game_state(engine, st.players, st.hand_arrays, hand_sizes, st.deck, st.discard_pile, p)

\* C11: get_game_state(p) shows nothing of what is hidden from p: two states
\* that agree on p's hand, the deck size, every opponent's number of cards and
\* the top of the discard pile give the same observation, whatever the
\* opponents' cards, the order of the deck and the rest of the discard pile.
C11_ObservationHidesHands ==
    pc \in {"loop", "done"} =>
        \A p \in 0 .. Len(players) - 1 :
            \A pool \in {Reverse(Hidden(p)), Rotated(Hidden(p), turn_count + 1)} :
                ObservationOf(Redealt(p, pool), p) = Observation(p)

\* three or more players in the optimized engine, hands of different sizes, and
\* redealing the hidden cards changes the value of an opponent's hand
C11_Witness ==
    /\ pc = "loop"
    /\ engine = "optimized"
    /\ Len(players) >= 3
    /\ \E i, j \in 1 .. Len(players) : Len(players[i].hand) # Len(players[j].hand)
    /\ Len(discard_pile) > 1
    /\ LET st == Redealt(0, Reverse(Hidden(0)))
       IN get_hand_value(st.players[2].hand) # get_hand_value(players[2].hand)

C13_RetryOnce ==
    /\ [][\A t \in failed' \ failed :
             t \notin failed => (t_pc' = "running" /\ t \in pending')]_vars
    /\ [](t_pc = "returned" =>
             results_dict = TalliesOf(nets, population, Tasks(Len(population)),
                                      games_per_matchup, rng))

\* C14: in YanivSimulator.play_game the game starts in phase 'draw' with player
\* 0; a pass of the loop in the draw phase leads to the discard phase of the
\* same player; a pass in the discard phase leads to the end of the game or to
\* the draw phase of the other player.
C14_TurnStateMachine ==
    [][/\ (pc = "new" /\ pc' = "loop") => (turn_phase' = "draw" /\ current_player' = 0)
       /\ (pc = "loop" /\ SimLoopCondition /\ turn_phase = "draw")
              => (turn_phase' = "discard" /\ current_player' = current_player /\ ~game_over')
       /\ (pc = "loop" /\ SimLoopCondition /\ turn_phase = "discard")
              => \/ game_over'
                 \/ turn_phase' = "draw" /\ current_player' = 1 - current_player
       /\ (pc = "loop" /\ SimLoopCondition) => turn_phase \in {"draw", "discard"}]_vars

\* a game in which player 0 drew and discarded, and it is player 1's draw
C14_Witness ==
    /\ engine = "simulator"
    /\ pc = "loop"
    /\ ~game_over
    /\ turn_count = 1
    /\ turn_phase = "draw"
    /\ current_player = 1

\* C15: when play_game stops at the turn cap with no call made, the winner is the
\* player with the lowest hand value, and among several with the lowest value the
\* one with the lowest index.
C15_CapWinner ==
    (pc = "done" /\ ~game_over)
       => /\ winner \in 0 .. Len(players) - 1
          /\ \A j \in 0 .. Len(players) - 1 : ListValues[winner + 1] <= ListValues[j + 1]
          /\ \A j \in 0 .. winner - 1 : ListValues[j + 1] > ListValues[winner + 1]

\* a game stopped by the cap in which two players tie for the lowest hand value
C15_Witness ==
    /\ pc = "done"
    /\ ~game_over
    /\ turn_count = max_turns
    /\ \E i, j \in 0 .. Len(players) - 1 :
          /\ i < j
          /\ ListValues[i + 1] = ListValues[j + 1]
          /\ \A k \in 0 .. Len(players) - 1 : ListValues[i + 1] <= ListValues[k + 1]

\* C16: when mutation_rate and mutation_strength start within [0.05, 0.3], both
\* stay within [0.05, 0.3] after any number of calls of adaptive_mutation_rate,
\* whatever the history of best fitnesses.
C16_MutationBounded ==
    ga_pc = "adapt" => /\ MinRate <= mutation_rate /\ mutation_rate <= MaxRate
                       /\ MinRate <= mutation_strength /\ mutation_strength <= MaxRate

\* two plateau increases have happened: the rate was held at the upper bound
\* while the strength grew by 1.2 twice
C16_Witness ==
    /\ ga_pc = "adapt"
    /\ Len(best_fitness_history) = 7
    /\ mutation_rate = MaxRate
    /\ mutation_strength = (DefaultRate * 144) \div 100

\* C17: initialize_game raises when 5 cards for each of the N players and one card
\* for the discard pile are more than the 54 cards of the deck (N >= 11); for
\* every other N it deals exactly 5 cards to each hand and one card to the pile.
C17_DealOrFail ==
    pc \in {"dealt", "raised"} =>
        IF HandSize * Len(players) + 1 <= DeckSize
        THEN /\ pc = "dealt"
             /\ \A i \in DOMAIN players :
                   Len(players[i].hand) = HandSize /\ ~HasNone(players[i].hand)
             /\ Len(discard_pile) = 1
             /\ discard_pile[1] # None
             /\ Len(deck) = DeckSize - HandSize * Len(players) - 1
        ELSE pc = "raised"

\* the optimized engine, asked to deal to eleven players, has raised
C17_Witness == pc = "raised" /\ engine = "optimized" /\ Len(players) = 11

\* C18: after evaluate_population and evaluate_population_parallel the fitness of
\* every network of the population is its wins / games_played, and it is 0,
\* with no division by zero, for a network that played no game.
C18_FitnessIsWinRate ==
    (ga_pc = "select" /\ ga_kind \in {"base", "parallel"}) =>
        \A i \in DOMAIN population :
            LET network == nets[population[i]]
            IN /\ network.fitness[2] > 0
               /\ IF network.games_played > 0
                  THEN network.fitness[1] * network.games_played
                           = network.wins * network.fitness[2]
                  ELSE network.fitness[1] = 0

\* the only network of a population of one has been evaluated by the parallel
\* tournament
C18_Witness ==
    /\ ga_pc = "select"
    /\ ga_kind = "parallel"
    /\ Len(population) = 1
    /\ nets[population[1]].games_played = 0

\* C19: when a call fails in a game of three or more players, the winner is the
\* opponent of the caller whose hand is worth the least.
C19_AssafWinnerLowestHand ==
    [][(/\ pc = "loop"
        /\ ~game_over
        /\ game_over'
        /\ Len(players) >= 3
        /\ ~OthersAllHigher(current_player))
       => /\ winner' # current_player
          /\ \A j \in (0 .. Len(players) - 1) \ {current_player} :
                ListValues[winner' + 1] <= ListValues[j + 1]]_vars

\* the ids and the parameter values of the networks of a population, in order
PopulationIds(ns, pop) == [i \in 1 .. Len(pop) |-> ns[pop[i]].network_id]

PopulationParams(ns, ws, pop) == [i \in 1 .. Len(pop) |-> ws[ns[pop[i]].w]]

\* the ids and the parameter values that a checkpoint holds, in order
SavedIds(cp) == [i \in 1 .. Len(cp.population_weights) |-> cp.population_weights[i].network_id]

SavedParams(cp) == [i \in 1 .. Len(cp.population_weights) |-> cp.population_weights[i].w]

\* C20: load_checkpoint on a file written by save_checkpoint restores the state
\* at the moment of saving: the file holds the generation, the population size,
\* the networks' ids and parameter values in order, the best-fitness history and
\* the mutation rate and strength of that moment, and after loading the
\* algorithm has exactly what the file holds.
C20_CheckpointRoundTrip ==
    [][/\ (checkpoint' # checkpoint) =>
              /\ checkpoint'[1].generation = generation
              /\ checkpoint'[1].population_size = population_size
              /\ SavedIds(checkpoint'[1]) = PopulationIds(nets, population)
              /\ SavedParams(checkpoint'[1]) = PopulationParams(nets, weights, population)
              /\ checkpoint'[1].best_fitness_history = best_fitness_history
              /\ checkpoint'[1].mutation_rate = mutation_rate
              /\ checkpoint'[1].mutation_strength = mutation_strength
       /\ (ga_pc # "loaded" /\ ga_pc' = "loaded") =>
              /\ generation' = checkpoint[1].generation
              /\ population_size' = checkpoint[1].population_size
              /\ Len(population') = checkpoint[1].population_size
              /\ PopulationIds(nets', population') = SavedIds(checkpoint[1])
              /\ PopulationParams(nets', weights', population') = SavedParams(checkpoint[1])
              /\ best_fitness_history' = checkpoint[1].best_fitness_history
              /\ mutation_rate' = checkpoint[1].mutation_rate
              /\ mutation_strength' = checkpoint[1].mutation_strength]_vars

\* a checkpoint of the first generation was loaded after the second generation
\* had replaced the population and lengthened the history
C20_Witness ==
    /\ ga_pc = "loaded"
    /\ gen = 1
    /\ generation = 0
    /\ Len(best_fitness_history) = 1
    /\ Len(population) = MaxPop

\* the number of games of the log that satisfy a test
CountGames(log, Test(_)) == Cardinality({k \in DOMAIN log : Test(log[k])})

\* C21: within a matchup of g games between A and B, game k is started by A when
\* k is even and by B when k is odd, so the numbers of games they start differ
\* by at most one, and every game is counted for the agent that won it, whatever
\* its seat.
C21_SeatsAlternate ==
    t_pc \in {"matchup", "matched"} =>
        LET A == population[1]
            B == population[2]
            startedA == CountGames(match_log, LAMBDA g : g.first = A)
            startedB == CountGames(match_log, LAMBDA g : g.first = B)
        IN /\ \A k \in DOMAIN match_log :
                 /\ match_log[k].first = (IF (k - 1) % 2 = 0 THEN A ELSE B)
                 /\ match_log[k].second = (IF (k - 1) % 2 = 0 THEN B ELSE A)
           /\ startedA - startedB \in {0, 1}
           /\ match_wins[1] = CountGames(match_log, LAMBDA g : g.winner = A)
           /\ match_wins[2] = CountGames(match_log, LAMBDA g : g.winner = B)
           /\ t_pc = "matched" =>
                 match_wins[1] = play_single_matchup(nets, A, B, games_per_matchup, rng).p1_wins

\* a returned matchup of several games in which the agent that started second
\* won a game and the one that started first won another
C21_Witness ==
    /\ t_pc = "matched"
    /\ Len(match_log) >= 3
    /\ \E k \in DOMAIN match_log : match_log[k].winner = match_log[k].second
    /\ \E k \in DOMAIN match_log : match_log[k].winner = match_log[k].first
    /\ match_wins[1] > 0
    /\ match_wins[2] > 0

\* C22: once a call has set game_over, play_game executes no further action:
\* hands, deck, discard pile and scores stay as they are, and the winner that
\* the call set is the one play_game returns.
C22_FrozenAfterGameOver ==
    [][game_over =>
          /\ game_over'
          /\ players' = players
          /\ deck' = deck
          /\ discard_pile' = discard_pile
          /\ winner # None
          /\ winner' = winner]_vars

\* play_game has returned the winner of a call where the player with the lowest
\* hand is another one
C22_Witness ==
    /\ pc = "done"
    /\ game_over
    /\ winner # None
    /\ winner # FirstMin(ListValues)

\* the points of a card by the rules: a joker 0; ace to ten the rank; jack, queen
\* and king 10
CappedValue(c) ==
    IF c = Joker THEN 0
    ELSE IF (c % 13) + 1 <= 10 THEN (c % 13) + 1
    ELSE 10

\* the sum of the capped values of a hand, counted value by value
CappedSum(hand) ==
    SumSeq([v \in 1 .. 10 |-> v * Cardinality({i \in DOMAIN hand : CappedValue(hand[i]) = v})])

\* the hand [K, K, 2, 3, Joker]: the kings of the first two suits
ExampleHand == <<12, 25, 1, 2, Joker>>

\* C23: the hand value is the sum of the capped card values (ranks 1 to 10 their
\* rank; jack, queen and king 10; a joker 0), in the list engine, in its
\* compatible copy and in the JIT-compiled function on the hand's rows; the hand
\* [K, K, 2, 3, Joker] is worth 25 and the empty hand 0.
C23_HandValueIsCappedSum ==
    pc \in {"loop", "done"} =>
        /\ \A p \in 0 .. Len(players) - 1 :
              LET hand == players[p + 1].hand
              IN /\ get_hand_value(hand) = CappedSum(hand)
                 /\ calculate_hand_value_jit(ListRows(hand)) = CappedSum(hand)
        /\ get_hand_value(ExampleHand) = 25
        /\ calculate_hand_value_jit(ListRows(ExampleHand)) = 25
        /\ get_hand_value(<<>>) = 0
        /\ calculate_hand_value_jit(<<>>) = 0

\* a hand of a running game that holds a joker, a face card and a lower card
C23_Witness ==
    /\ pc = "loop"
    /\ \E p \in 0 .. Len(players) - 1 :
          LET hand == players[p + 1].hand
          IN /\ \E i \in DOMAIN hand : hand[i] = Joker
             /\ \E i \in DOMAIN hand : hand[i] # Joker /\ (hand[i] % 13) + 1 >= 11
             /\ \E i \in DOMAIN hand : hand[i] # Joker /\ (hand[i] % 13) + 1 <= 9

\* C24: evaluate_population_vectorized plays every unordered pair of distinct
\* networks exactly games_per_matchup games, n(n-1)/2 * g games in total for
\* n >= 2 networks, and every network ends with games_played = (n-1) * g.
C24_VectorizedRoundRobin ==
    (ga_pc = "select" /\ ga_kind = "vectorized" /\ Len(population) >= 2) =>
        LET n == Len(population)
            g == games_per_matchup
        IN /\ DOMAIN games_log = {t \in (0 .. n - 1) \X (0 .. n - 1) : t[1] < t[2]}
           /\ \A t \in DOMAIN games_log : games_log[t] = g
           /\ SumFun(games_log) = ((n * (n - 1)) \div 2) * g
           /\ \A i \in 1 .. n : nets[population[i]].games_played = (n - 1) * g

\* the hand values of the simulator's two players
SimValues == [i \in 1 .. Len(players) |-> SimHandValue(players[i].hand)]

\* the step is a Yaniv call of the simulator's current player: the game ends
\* and no hand changes
SimCallStep ==
    /\ engine = "simulator"
    /\ pc = "loop"
    /\ ~game_over
    /\ game_over'
    /\ \A i \in DOMAIN players : players'[i].hand = players[i].hand

\* C25: in YanivSimulator.play_game a call fails (the caller's score grows by 30
\* and the opponent wins) whenever the opponent's hand value is not strictly
\* greater than the caller's, equal values included.
C25_SimAssafOnTie ==
    [][(SimCallStep /\ SimValues[(1 - current_player) + 1] <= SimValues[current_player + 1])
       => /\ winner' = 1 - current_player
          /\ players'[current_player + 1].score
                = players[current_player + 1].score + AssafPenalty]_vars

\* C26: every call of YanivSimulator.play_game returns a winner, player 0 or 1,
\* and counts the game for both agents and the win for one of them, also when
\* the 200-turn cap stops the game, where the winner is the player whose hand
\* is worth less.
C26_SimAlwaysWinner ==
    (engine = "simulator" /\ pc = "done") =>
        /\ winner \in {0, 1}
        /\ \A i \in DOMAIN agents : agents[i].games_played = 1
        /\ agents[1].wins + agents[2].wins = 1
        /\ ~game_over => \A j \in DOMAIN players : SimValues[winner + 1] <= SimValues[j]

C28_PlateauMonotone ==
    [][(ga_pc = "adapt" /\ Len(best_fitness_history') > 5) =>
          IF Plateau(SubSeq(best_fitness_history', Len(best_fitness_history') - 4,
                            Len(best_fitness_history')))
          THEN mutation_rate' >= mutation_rate /\ mutation_strength' >= mutation_strength
          ELSE mutation_rate' <= mutation_rate /\ mutation_strength' <= mutation_strength
      ]_vars

\* C29: the ranking of the survivors is determined by the fitnesses: a survivor
\* stands before every survivor of lower fitness and, among equal fitnesses,
\* before every survivor of higher id, and an agent left out has no higher fitness
\* than a survivor and, at equal fitness, a higher id
C29_TiesById ==
    (ga_pc = "breed" /\ ga_kind \in {"base", "parallel", "vectorized"}) =>
        /\ \A i, j \in DOMAIN survivors :
               i < j => RankedBefore(nets[survivors[i]], nets[survivors[j]])
        /\ \A i \in DOMAIN survivors : \A r \in Range(population) \ Range(survivors) :
               RankedBefore(nets[survivors[i]], nets[r])

\* C30: once a generation of evolve_parallel has been evaluated and recorded, and
\* when evolve_parallel has returned, the history of best fitnesses has one
\* entry for each generation 0 .. generation, also in a run that continues from
\* load_checkpoint: no generation is recorded twice
C30_OneEntryPerGeneration ==
    (ga_kind = "parallel" /\ ga_pc \in {"breed", "done"}) =>
        Len(best_fitness_history) = generation + 1

\* the cards at the positions of a discard option all have the rank of the first
SimSameRank(hand, option) ==
    \A k \in DOMAIN option : SimRank(hand[option[k] + 1]) = SimRank(hand[option[1] + 1])

\* the cards at the positions of a discard option are of one suit and every
\* card's rank is one more than the rank of the card before it
SimIsRun(hand, option) ==
    /\ Len(option) >= 3
    /\ \A k \in DOMAIN option : SuitIdx(hand[option[k] + 1]) = SuitIdx(hand[option[1] + 1])
    /\ \A k \in 2 .. Len(option) :
           SimRank(hand[option[k] + 1]) = SimRank(hand[option[k - 1] + 1]) + 1

\* C31: every option of several cards that find_valid_discards offers and that
\* is no run, that is every pair and every set, consists of cards of one rank
C31_PairsAndSetsSameRank ==
    engine = "simulator" =>
        \A p \in DOMAIN players :
            LET hand == players[p].hand
                valid == find_valid_discards(hand)
            IN \A k \in DOMAIN valid :
                   (Len(valid[k]) >= 2 /\ ~SimIsRun(hand, valid[k])) =>
                       SimSameRank(hand, valid[k])

\* the number of cards c, c + 1, ... of the suit of c, in consecutive ranks, that
\* the hand holds from the card c on
RECURSIVE ChainFrom(_, _)
ChainFrom(hand, c) ==
    IF c \in 0 .. 51 /\ c \in Range(hand)
    THEN 1 + (IF (c + 1) \div 13 = c \div 13 THEN ChainFrom(hand, c + 1) ELSE 0)
    ELSE 0

\* the hand positions (0-based) of the cards c, c + 1, ..., c + m - 1
ChainPositions(hand, c, m) ==
    [k \in 1 .. m |-> (CHOOSE i \in DOMAIN hand : hand[i] = c + k - 1) - 1]

\* the discard_run actions among the legal actions of player p
RunActions(p) ==
    LET acts == get_legal_actions(engine, players, hand_arrays, hand_sizes, p)
    IN {acts[k] : k \in {j \in DOMAIN acts : acts[j].type = "discard_run"}}

\* C32: every discard_run action of get_legal_actions names at least 3 cards of
\* the player's hand, of one suit and of strictly consecutive ranks, no joker
\* among them; and for every hand card that begins such a sequence the run from
\* that card, as long as the hand allows, is offered with either draw source
C32_RunsAreRuns ==
    pc = "loop" =>
        \A p \in 0 .. Len(players) - 1 :
            LET hand == players[p + 1].hand
            IN /\ \A a \in RunActions(p) :
                      /\ Len(a.cards) >= 3
                      /\ \A k \in DOMAIN a.cards :
                             /\ a.cards[k] \in 0 .. Len(hand) - 1
                             /\ hand[a.cards[k] + 1] \in 0 .. 51
                      /\ \A k \in 2 .. Len(a.cards) :
                             /\ hand[a.cards[k] + 1] = hand[a.cards[k - 1] + 1] + 1
                             /\ hand[a.cards[k] + 1] \div 13 = hand[a.cards[1] + 1] \div 13
               /\ \A i \in DOMAIN hand :
                      ChainFrom(hand, hand[i]) >= 3 =>
                          \A src \in {"deck", "discard"} :
                              [type |-> "discard_run",
                               cards |-> ChainPositions(hand, hand[i],
                                                        ChainFrom(hand, hand[i])),
                               draw_from |-> src] \in RunActions(p)

\* a player's legal actions hold a run of four cards, and hence the run of
\* three that starts at its second card
C32_Witness ==
    /\ pc = "loop"
    /\ \E p \in 0 .. Len(players) - 1 : \E a, b \in RunActions(p) :
           /\ Len(a.cards) = 4
           /\ Len(b.cards) = 3
           /\ b.cards[1] = a.cards[2]

\* what the fixed executor's tournament has left to do at most: the matchups and
\* ends of the tasks, the messages to take, and the steps of the main thread
ProgressVariant ==
    LET ms == MatchupList(Len(population))
        work == SumSeq([f \in DOMAIN futures |->
                    IF futures[f].state \in {"queued", "running"}
                    THEN 2 * (Len(futures[f].chunk) - futures[f].played) + 1 ELSE 0])
        messages == IF progress_thread = "running" THEN Len(progress_queue) + 1 ELSE 0
        main == CASE t_pc = "new" -> 2 * Len(ms) + 3 * Len(matchup_chunks(ms)) + 8
                  [] t_pc = "collect" -> 2 * (Len(futures) - collected) + 6
                  [] t_pc \in {"exit", "exit_raise"} -> 4
                  [] t_pc \in {"join", "join_raise"} -> 1
                  [] OTHER -> 0
    IN work + messages + main

\* some thread or task of the fixed executor's tournament can take a step
ProgressCanStep ==
    \/ t_pc = "new"
    \/ \E f \in DOMAIN futures : WorkerRuns(f)
    \/ progress_thread = "running" /\ progress_queue # <<>>
    \/ t_pc = "collect" /\ collected = Len(futures)
    \/ t_pc = "collect" /\ collected < Len(futures)
          /\ futures[collected + 1].state \in {"done", "raised"}
    \/ t_pc \in {"exit", "exit_raise"} /\ AllFinished
    \/ t_pc \in {"join", "join_raise"} /\ progress_thread = "finished"

\* C33: the fixed executor's tournament always ends, by returning or by raising
\* again, whatever the interleaving of the workers' progress messages and also
\* when a task raises: until then some step is always possible and every step
\* brings the end closer; the main thread waiting in join has put the sentinel
\* or the progress thread has already taken it, and at the end the progress
\* thread has finished and has taken every message, the sentinel last
C33_ProgressThreadEnds ==
    /\ [](/\ ProgressVariant >= 0
          /\ t_pc \notin {"returned", "raised"} => ProgressCanStep
          /\ t_pc \in {"join", "join_raise"} =>
                 \/ progress_thread = "finished"
                 \/ progress_queue # <<>> /\ Last(progress_queue) = -1
          /\ t_pc \in {"returned", "raised"} =>
                 progress_thread = "finished" /\ progress_queue = <<>>)
    /\ [][ProgressVariant' < ProgressVariant]_vars

\* the call ended by raising again after a task had raised, and the progress
\* thread had counted the games of other matchups before it took the sentinel
C33_Witness ==
    /\ t_pc = "raised"
    /\ progress_thread = "finished"
    /\ completed_games > 0
    /\ \E f \in DOMAIN futures : futures[f].state = "raised"

\* total_games = total_matchups * games_per_matchup of the tournament
TotalGames ==
    ((Len(population) * (Len(population) - 1)) \div 2) * games_per_matchup

\* C34: the progress count of a parallel tournament never decreases and never
\* exceeds total_games = n (n - 1) / 2 * g, and when the method returns, every
\* task having succeeded, it equals total_games; with the fixed executor every
\* message is taken before the sentinel
C34_ProgressCountAccurate ==
    /\ [](/\ completed_games >= 0
          /\ completed_games <= TotalGames
          /\ t_pc = "returned" => completed_games = TotalGames
          /\ \A k \in 1 .. Len(progress_queue) - 1 : progress_queue[k] # -1)
    /\ [][completed_games' >= completed_games]_vars

\* the fixed executor has returned the tallies of a tournament of MaxPop networks
C34_Witness ==
    /\ t_pc = "returned"
    /\ progress_thread = "finished"
    /\ Len(population) = MaxPop
    /\ completed_games = TotalGames
    /\ games_per_matchup > 1

\* population[i].network_id = i for every i, hence pairwise distinct ids
IdsByIndex ==
    \A i \in DOMAIN population : nets[population[i]].network_id = i - 1

\* the step is a create_next_generation_optimized that raises
BreedingRaises == ga_pc = "breed" /\ ga_pc' = "raised"

RenumberInit ==
    /\ CheckpointInit
    /\ rng = SeedRng(1)
    /\ games_per_matchup = 1

RenumberSpec == RenumberInit /\ [][ResumeNext]_vars

\* the networks of the checkpoint file, if there is one, are numbered by their
\* position too
SavedIdsByIndex ==
    checkpoint # <<>> =>
        SavedIds(checkpoint[1]) = [i \in DOMAIN SavedIds(checkpoint[1]) |-> i - 1]

DiscardPileTurn ==
    /\ pc = "loop"
    /\ LoopCondition
    /\ NonCalls(CurrentLegal) # <<>>
    /\ turn_count' = turn_count + 1
    /\ ~game_over'
    /\ CurrentDiscard.draw_from = "discard"

\* C36: a discard action with draw_from = 'discard' adds to the hand the card
\* that was on top of the discard pile before the action (the observation's
\* last_discard), not a card discarded in the same action
C36_DrawsPreviousTop ==
    [][DiscardPileTurn => Last(players'[current_player + 1].hand) = Last(discard_pile)]_vars

\* a pass of play_game's loop in which the agent discards
DiscardingTurn ==
    /\ pc = "loop"
    /\ LoopCondition
    /\ NonCalls(CurrentLegal) # <<>>
    /\ turn_count' = turn_count + 1
    /\ ~game_over'

\* at the start of a turn both piles hold a card and every hand 1 to 5 cards
PilesAndHandsInRange ==
    (pc = "loop" /\ LoopCondition) =>
        /\ deck # <<>>
        /\ discard_pile # <<>>
        /\ \A i \in DOMAIN players : Len(players[i].hand) \in 1 .. HandSize

\* the hand of the player who discards k cards shrinks by k - 1: one card is drawn
DrawsExactlyOne ==
    DiscardingTurn =>
        Len(players'[current_player + 1].hand) =
            Len(players[current_player + 1].hand) - (Len(CurrentDiscard.cards) - 1)

\* no hand grows during the game
NoHandGrows ==
    pc = "loop" =>
        \A i \in DOMAIN players : Len(players'[i].hand) <= Len(players[i].hand)

\* C37: in any play_game with 2 to 10 players, at the start of every turn the
\* deck and the discard pile are both non-empty, so every discard draws exactly
\* one card; every hand holds 1 to 5 cards, no hand grows, and the hand of a
\* player who discards k cards shrinks by k - 1
C37_PilesNeverEmpty ==
    /\ []PilesAndHandsInRange
    /\ [][DrawsExactlyOne]_vars
    /\ [][NoHandGrows]_vars

\* a game of ten players in which the deck ran out and was rebuilt from the
\* discard pile, at the start of a later turn
C37_Witness ==
    /\ pc = "loop"
    /\ LoopCondition
    /\ Len(players) = 10
    /\ turn_count > 3
    /\ Len(discard_pile) = 1
    /\ Len(deck) > 3

\* C38: every element of the legal_actions passed to get_action is a possible
\* return value, whatever the length of the list (so whenever call_yaniv is
\* legal the agent can choose it): for each position there is a random draw
\* with which get_action returns the action at that position
C38_EveryLegalActionPossible ==
    (pc = "loop" /\ LoopCondition) =>
        \A k \in DOMAIN CurrentLegal :
            \E r \in 0 .. Len(CurrentLegal) + OutputSize :
                get_action(CurrentLegal, r) = CurrentLegal[k]

\* C39: for every n >= 1 and every content of the hall of fame,
\* get_opponents(n) returns without error exactly min(n, number of champions)
\* networks, all distinct and all champions, the first of them the champion of
\* the highest fitness; the calls of create_ensemble are among them
C39_OpponentsReturned ==
    (h_pc \in {"returned", "raised"} /\ hof_result.n >= 1) =>
        LET champs == hall_of_fame.champions
            selected == hof_result.selected
        IN /\ h_pc = "returned"
           /\ Len(selected) = IF hof_result.n < Len(champs) THEN hof_result.n ELSE Len(champs)
           /\ \A i, j \in DOMAIN selected : i # j => selected[i] # selected[j]
           /\ \A i \in DOMAIN selected : \E k \in DOMAIN champs : selected[i] = champs[k].network
           /\ selected # <<>> =>
                 \E k \in DOMAIN champs :
                    /\ selected[1] = champs[k].network
                    /\ \A m \in DOMAIN champs : champs[m].fitness <= champs[k].fitness

\* the arrays of player i describe the list players[i]['hand']: as many rows as
\* cards, row k the value and the suit index of card k
ArraysDescribeHand(i) ==
    /\ hand_sizes[i] = Len(players[i].hand)
    /\ ArrayRows(hand_arrays, hand_sizes, i - 1) = ListRows(players[i].hand)

\* C40: YanivGameAIOptimized refines the list engine: in every reachable state
\* of a game hand_arrays[i] and hand_sizes[i] describe exactly
\* players[i]['hand'], so get_hand_value_optimized(i) equals get_hand_value of
\* the list, and get_legal_actions_optimized offers call_yaniv exactly when the
\* list's value is at most 7
C40_ArraysRefineLists ==
    (engine = "optimized" /\ pc \in {"loop", "done"}) =>
        \A i \in DOMAIN players :
            /\ ArraysDescribeHand(i)
            /\ get_hand_value_optimized(hand_arrays, hand_sizes, i - 1) =
                  get_hand_value(players[i].hand)
            /\ HasCall(get_legal_actions(engine, players, hand_arrays, hand_sizes, i - 1))
                  <=> get_hand_value(players[i].hand) <= YanivThreshold

\* the optimized engine after a discard of several cards: the player's hand is
\* shorter than the rows written for it, the rows past the hand are stale, and
\* the player to move may call
C40_Witness ==
    /\ engine = "optimized"
    /\ pc = "loop"
    /\ LoopCondition
    /\ HasCall(CurrentLegal)
    /\ \E i \in DOMAIN players :
          /\ Len(players[i].hand) < HandSize
          /\ hand_arrays[i][HandSize] # <<0, 0>>

==============================================================================
